---- MODULE Spec2Model ----
(***************************************************************************)
(* neutron_lib.api.validators: the validator registry and the dict schema  *)
(* validator, as a state machine.                                          *)
(*                                                                         *)
(* Python values are records [t, n, s, items]:                             *)
(*   t      the Python type ("None", "bool", "int", "str", "list", "dict", *)
(*          "func"),                                                       *)
(*   n      the number of an int or a bool,                                *)
(*   s      the text of a str, as a sequence of tokens (a token is a run   *)
(*          of characters; "type:" is one token, so that startswith can be *)
(*          computed), or the name of a function,                          *)
(*   items  the elements of a list, or the entries [k, v] of a dict in     *)
(*          iteration order.                                               *)
(* `threads` holds the calls of add_validator that run in threads of their *)
(* own, each with its position in the function.                            *)
(* A formatted message is a str that keeps the format in s and the         *)
(* formatted arguments in items.                                           *)
(***************************************************************************)
EXTENDS Integers, Sequences, FiniteSets, TLC

VARIABLES validators, call, args, data, visited, ret, threads

vars == <<validators, call, args, data, visited, ret, threads>>

---------------------------------------------------------------------------
(* Python values *)

PyNone == [t |-> "None", n |-> 0, s |-> <<>>, items |-> <<>>]

PyBool(b) == [t |-> "bool", n |-> IF b THEN 1 ELSE 0, s |-> <<>>, items |-> <<>>]

PyInt(i) == [t |-> "int", n |-> i, s |-> <<>>, items |-> <<>>]

PyStr(toks) == [t |-> "str", n |-> 0, s |-> toks, items |-> <<>>]

PyList(xs) == [t |-> "list", n |-> 0, s |-> <<>>, items |-> xs]

PyDict(es) == [t |-> "dict", n |-> 0, s |-> <<>>, items |-> es]

PyFunc(name) == [t |-> "func", n |-> 0, s |-> <<name>>, items |-> <<>>]

Entry(key, val) == [k |-> key, v |-> val]

Msg(fmt, fargs) == [t |-> "str", n |-> 0, s |-> <<fmt>>, items |-> fargs]

isinstance(x, ty) == x.t = ty

\* bool(x): the truth value Python's `if x:` and `not x` use.
Truthy(x) ==
    CASE x.t = "None" -> FALSE
      [] x.t \in {"bool", "int"} -> x.n # 0
      [] x.t = "str" -> x.s # <<>>
      [] x.t \in {"list", "dict"} -> x.items # <<>>
      [] OTHER -> TRUE

\* list(d) / d.keys(): the keys of a dict in iteration order.
DictKeys(d) == [i \in DOMAIN d.items |-> d.items[i].k]

\* key in d
DictHas(d, key) == \E i \in DOMAIN d.items : d.items[i].k = key

\* d.get(key)
DictGet(d, key) ==
    IF DictHas(d, key)
    THEN d.items[CHOOSE i \in DOMAIN d.items : d.items[i].k = key].v
    ELSE PyNone

\* d[key] = val: an existing key keeps its place, a new key goes last.
DictSet(d, key, val) ==
    IF DictHas(d, key)
    THEN PyDict([i \in DOMAIN d.items |->
                 IF d.items[i].k = key THEN Entry(key, val) ELSE d.items[i]])
    ELSE PyDict(Append(d.items, Entry(key, val)))

\* What a call does: it returns a value or raises, and leaves the object it
\* was given as `data` in the state `data` (validators mutate in place).
\* `visited` lists the keys validate_dict handed to _validate_dict_item, or
\* the items a list validator handed to its item validator.
Return(val, d) ==
    [kind |-> "return", val |-> val, exc |-> "", data |-> d, visited |-> <<>>]

Raise(exc, d) ==
    [kind |-> "raise", val |-> PyNone, exc |-> exc, data |-> d, visited |-> <<>>]

---------------------------------------------------------------------------
(* The registry *)

\* A validator function object: `name` identifies the object, `src` is what
\* inspect.getsource returns for it (NoSource: getsource raises TypeError, as
\* it does for a functools.partial or a builtin).
NoSource == "<no source>"

Function(name, src) == [name |-> name, src |-> src]

\* A function defined in validators.py: its source text is its own def.
Builtin(name) == Function(name, name)

\* 'type:' + name
Tag(name) == <<"type:", name>>

BuiltinNames ==
    {"dict", "dict_or_none", "dict_or_empty", "dict_or_nodata", "fixed_ips",
     "hostroutes", "ip_address", "ip_address_or_none", "ip_or_subnet_or_none",
     "ip_pools", "mac_address", "mac_address_or_none", "nameservers",
     "non_negative", "range", "regex", "regex_or_none", "string",
     "string_or_none", "not_empty_string", "not_empty_string_or_none",
     "subnet", "subnet_list", "subnet_or_none", "subnetpool_id",
     "subnetpool_id_or_none", "subports", "uuid", "uuid_or_none", "uuid_list",
     "values", "boolean", "integer", "list_of_unique_strings"}

\* The function each built-in tag is bound to: validate_<name>, but
\* 'type:port_range' is bound to validate_port_range_or_none.
InitialValidators ==
    [tag \in {Tag(nm) : nm \in BuiltinNames \cup {"port_range"}} |->
        IF tag[2] = "port_range"
        THEN Builtin("validate_port_range_or_none")
        ELSE Builtin("validate_" \o tag[2])]

startswith_type(str) == Len(str) > 0 /\ str[1] = "type:"

\* Variant: the prefix is added without looking at the name.
_to_validation_type_always_prefixed(validation_type) ==
    <<"type:">> \o validation_type

_to_validation_type(validation_type) ==
    IF startswith_type(validation_type)
    THEN validation_type
    ELSE <<"type:">> \o validation_type

\* validators.get(_to_validation_type(validation_type), default)
get_validator(reg, validation_type, default) ==
    LET key == _to_validation_type(validation_type)
    IN  IF key \in DOMAIN reg THEN reg[key] ELSE default

\* Variant: a tag already bound is bound again to the new validator.
add_validator_overwriting(reg, validation_type, validator) ==
    LET key == _to_validation_type(validation_type)
    IN  [ret |-> Return(PyNone, PyNone),
         validators |-> [t \in DOMAIN reg \cup {key} |->
                            IF t = key THEN validator ELSE reg[t]]]

\* Variant: a tag already bound is left alone and nothing is raised.
add_validator_silent(reg, validation_type, validator) ==
    LET key == _to_validation_type(validation_type)
    IN  [ret |-> Return(PyNone, PyNone),
         validators |-> IF key \in DOMAIN reg THEN reg
                        ELSE [t \in DOMAIN reg \cup {key} |->
                                 IF t = key THEN validator ELSE reg[t]]]

\* Variant: a key already bound keeps its validator.
setdefault(reg, key, validator) ==
    IF key \in DOMAIN reg THEN reg
    ELSE [t \in DOMAIN reg \cup {key} |-> IF t = key THEN validator ELSE reg[t]]

\* validators[key] = validator
setitem(reg, key, validator) ==
    [t \in DOMAIN reg \cup {key} |-> IF t = key THEN validator ELSE reg[t]]

\* add_validator: [ret, validators], the outcome and the registry it leaves.
add_validator(reg, validation_type, validator) ==
    LET key == _to_validation_type(validation_type)
    IN  IF key \in DOMAIN reg
        THEN IF validator.src = NoSource \/ reg[key].src = NoSource
             THEN [ret |-> Raise("TypeError", PyNone), validators |-> reg]
             ELSE IF validator.src # reg[key].src
             THEN [ret |-> Raise("KeyError", PyNone), validators |-> reg]
             ELSE [ret |-> Return(PyNone, PyNone), validators |-> reg]
        ELSE [ret |-> Return(PyNone, PyNone),
              validators |-> [t \in DOMAIN reg \cup {key} |->
                                 IF t = key THEN validator ELSE reg[t]]]

---------------------------------------------------------------------------
(* Helpers over Python values *)

\* len(s) of a str: a token of UuidTokens stands for a 36 character UUID
\* text, a token of IntTokens for a decimal numeral, any other token for
\* its own characters.
UuidTokens == {"uuid1", "uuid2"}

RECURSIVE StrLen(_)
StrLen(toks) ==
    IF toks = <<>> THEN 0
    ELSE (IF Head(toks) \in UuidTokens THEN 36 ELSE Len(Head(toks)))
         + StrLen(Tail(toks))

\* x is hashable: a list or a dict in a set() raises TypeError.
Hashable(x) == x.t \notin {"list", "dict"}

\* x == y for hashable values: True == 1 and False == 0.
HashEq(x, y) ==
    IF x.t \in {"bool", "int"} /\ y.t \in {"bool", "int"}
    THEN x.n = y.n
    ELSE x = y

\* len(set(xs)) for a sequence of hashable values.
RECURSIVE SetLen(_)
SetLen(xs) ==
    IF xs = <<>> THEN 0
    ELSE LET rest == Tail(xs)
         IN  (IF \E i \in DOMAIN rest : HashEq(rest[i], Head(xs)) THEN 0 ELSE 1)
             + SetLen(rest)

\* ', '.join(xs) raises TypeError unless every item is a str.
Joinable(xs) == \A i \in DOMAIN xs : xs[i].t = "str"

\* set(xs) <= set(ys) and set(xs) == set(ys), for sequences of keys.
IsSubset(xs, ys) ==
    \A i \in DOMAIN xs : \E j \in DOMAIN ys : HashEq(xs[i], ys[j])

SetEq(xs, ys) == IsSubset(xs, ys) /\ IsSubset(ys, xs)

---------------------------------------------------------------------------
(* Leaf validators *)

\* Variant: the keys are not compared.
_verify_dict_keys_unchecked(expected_keys, target_dict, strict) ==
    IF ~isinstance(target_dict, "dict")
    THEN Return(Msg("Invalid input. '%(target_dict)s' must be a dictionary with keys: %(expected_keys)s",
                    <<target_dict, PyList(expected_keys)>>), target_dict)
    ELSE Return(PyNone, target_dict)

\* Variant: additional keys are allowed whatever `strict` says.
_verify_dict_keys_never_strict(expected_keys, target_dict, strict) ==
    IF ~isinstance(target_dict, "dict")
    THEN Return(Msg("Invalid input. '%(target_dict)s' must be a dictionary with keys: %(expected_keys)s",
                    <<target_dict, PyList(expected_keys)>>), target_dict)
    ELSE LET provided_keys == DictKeys(target_dict)
         IN  IF ~IsSubset(expected_keys, provided_keys)
             THEN Return(Msg("Validation of dictionary's keys failed. Expected keys: %(expected_keys)s Provided keys: %(provided_keys)s",
                             <<PyList(expected_keys), PyList(provided_keys)>>),
                         target_dict)
             ELSE Return(PyNone, target_dict)

_verify_dict_keys(expected_keys, target_dict, strict) ==
    IF ~isinstance(target_dict, "dict")
    THEN Return(Msg("Invalid input. '%(target_dict)s' must be a dictionary with keys: %(expected_keys)s",
                    <<target_dict, PyList(expected_keys)>>), target_dict)
    ELSE LET provided_keys == DictKeys(target_dict)
             predicate == IF strict THEN SetEq(expected_keys, provided_keys)
                          ELSE IsSubset(expected_keys, provided_keys)
         IN  IF ~predicate
             THEN Return(Msg("Validation of dictionary's keys failed. Expected keys: %(expected_keys)s Provided keys: %(provided_keys)s",
                             <<PyList(expected_keys), PyList(provided_keys)>>),
                         target_dict)
             ELSE Return(PyNone, target_dict)

validate_string(d, max_len) ==
    IF ~isinstance(d, "str")
    THEN Return(Msg("'%s' is not a valid string", <<d>>), d)
    ELSE IF max_len # PyNone /\ StrLen(d.s) > max_len.n
    THEN Return(Msg("'%(data)s' exceeds maximum length of %(max_len)s",
                    <<d, max_len>>), d)
    ELSE Return(PyNone, d)

\* uuidutils.is_uuid_like: False for whatever is not the text of a UUID
\* (it catches TypeError, ValueError and AttributeError).
is_uuid_like(d) == isinstance(d, "str") /\ Len(d.s) = 1 /\ d.s[1] \in UuidTokens

validate_uuid(d, valid_values) ==
    IF ~is_uuid_like(d)
    THEN Return(Msg("'%s' is not a valid UUID", <<d>>), d)
    ELSE Return(PyNone, d)

\* Used by range check to indicate no limit for a bound.
UNLIMITED == PyNone

\* The decimal numerals int() parses, as single tokens.
IntTokens == {ToString(i) : i \in 0..9}

\* int(d): [ok, n]; not ok when int() raises ValueError or TypeError.
int(d) ==
    CASE d.t \in {"int", "bool"} -> [ok |-> TRUE, n |-> d.n]
      [] d.t = "str" /\ Len(d.s) = 1 /\ d.s[1] \in IntTokens ->
            [ok |-> TRUE, n |-> CHOOSE i \in 0..9 : ToString(i) = d.s[1]]
      [] OTHER -> [ok |-> FALSE, n |-> 0]

\* Variant: the upper bound is exclusive.
validate_range_exclusive(d, valid_values) ==
    IF ~isinstance(valid_values, "list")
    THEN Raise("TypeError", d)
    ELSE IF Len(valid_values.items) < 2
    THEN Raise("IndexError", d)
    ELSE LET min_value == valid_values.items[1]
             max_value == valid_values.items[2]
             i == int(d)
         IN  IF ~i.ok
             THEN Return(Msg("'%s' is not an integer", <<d>>), d)
             ELSE IF min_value # UNLIMITED /\ i.n < min_value.n
             THEN Return(Msg("'%(data)s' is too small - must be at least '%(limit)d'",
                             <<PyInt(i.n), min_value>>), d)
             ELSE IF max_value # UNLIMITED /\ i.n >= max_value.n
             THEN Return(Msg("'%(data)s' is too large - must be no larger than '%(limit)d'",
                             <<PyInt(i.n), max_value>>), d)
             ELSE Return(PyNone, d)

validate_range(d, valid_values) ==
    IF ~isinstance(valid_values, "list")
    THEN Raise("TypeError", d)
    ELSE IF Len(valid_values.items) < 2
    THEN Raise("IndexError", d)
    ELSE LET min_value == valid_values.items[1]
             max_value == valid_values.items[2]
             i == int(d)
         IN  IF ~i.ok
             THEN Return(Msg("'%s' is not an integer", <<d>>), d)
             ELSE IF min_value # UNLIMITED /\ i.n < min_value.n
             THEN Return(Msg("'%(data)s' is too small - must be at least '%(limit)d'",
                             <<PyInt(i.n), min_value>>), d)
             ELSE IF max_value # UNLIMITED /\ i.n > max_value.n
             THEN Return(Msg("'%(data)s' is too large - must be no larger than '%(limit)d'",
                             <<PyInt(i.n), max_value>>), d)
             ELSE Return(PyNone, d)

\* The texts netaddr reads as an IP subnet in CIDR form, and as an IP
\* address: one token each.
CidrTokens == {"10.0.0.0/24"}

IpTokens == {"10.0.0.1", "10.0.0.2"}

\* netaddr.IPNetwork(validate_no_whitespace(data)): whatever is not the text
\* of a network raises inside the try (TypeError for what is not a str) and
\* gets the message of the except clause; the text of an address has no '/'.
validate_subnet(d, valid_values) ==
    IF isinstance(d, "str") /\ Len(d.s) = 1 /\ d.s[1] \in CidrTokens
    THEN Return(PyNone, d)
    ELSE IF isinstance(d, "str") /\ Len(d.s) = 1 /\ d.s[1] \in IpTokens
    THEN Return(Msg("'%(data)s' isn't a recognized IP subnet cidr, '%(cidr)s' is recommended",
                    <<d, PyStr(<<d.s[1], "/32">>)>>), d)
    ELSE Return(Msg("'%s' is not a valid IP subnet", <<d>>), d)

\* Variant: None is not told from the other false values.
validate_uuid_or_falsy(d, valid_values) ==
    IF Truthy(d) THEN validate_uuid(d, PyNone) ELSE Return(PyNone, d)

validate_uuid_or_none(d, valid_values) ==
    IF d # PyNone THEN validate_uuid(d, PyNone) ELSE Return(PyNone, d)

validate_string_or_none(d, max_len) ==
    IF d # PyNone THEN validate_string(d, max_len) ELSE Return(PyNone, d)

\* not data.strip(): the text is empty or made of blanks only.
IsBlank(toks) == \A i \in DOMAIN toks : toks[i] = " "

validate_not_empty_string(d, max_len) ==
    LET msg == validate_string(d, max_len)
    IN  IF Truthy(msg.val) THEN msg
        ELSE IF IsBlank(d.s)
        THEN Return(Msg("'%s' Blank strings are not permitted", <<d>>), d)
        ELSE Return(PyNone, d)

validate_not_empty_string_or_none(d, max_len) ==
    IF d # PyNone THEN validate_not_empty_string(d, max_len)
    ELSE Return(PyNone, d)

\* The texts netaddr.valid_mac accepts; constants.INVALID_MAC_ADDRESSES is
\* ['00:00:00:00:00:00'].
MacTokens == {"fa:16:3e:00:00:01", "00:00:00:00:00:00"}

INVALID_MAC_ADDRESSES == {"00:00:00:00:00:00"}

\* Whatever is not the text of a MAC address makes valid_mac False, through
\* the except clause when it is not a str.
validate_mac_address(d, valid_values) ==
    LET valid_mac == /\ isinstance(d, "str") /\ Len(d.s) = 1
                     /\ d.s[1] \in MacTokens
                     /\ d.s[1] \notin INVALID_MAC_ADDRESSES
    IN  IF ~valid_mac
        THEN Return(Msg("'%s' is not a valid MAC address", <<d>>), d)
        ELSE Return(PyNone, d)

validate_mac_address_or_none(d, valid_values) ==
    IF d # PyNone THEN validate_mac_address(d, valid_values)
    ELSE Return(PyNone, d)

\* IPv4 texts with a leading zero in an octet, which ZEROFILL reads as the
\* address without it.
ZeroFilled(tok) ==
    CASE tok = "10.0.0.01" -> "10.0.0.1"
      [] OTHER -> ""

validate_ip_address(d, valid_values) ==
    IF isinstance(d, "str") /\ Len(d.s) = 1 /\ d.s[1] \in IpTokens
    THEN Return(PyNone, d)
    ELSE IF isinstance(d, "str") /\ Len(d.s) = 1 /\ ZeroFilled(d.s[1]) # ""
    THEN Return(Msg("'%(data)s' is not an accepted IP address, '%(ip)s' is recommended",
                    <<d, PyStr(<<ZeroFilled(d.s[1])>>)>>), d)
    ELSE Return(Msg("'%s' is not a valid IP address", <<d>>), d)

validate_ip_address_or_none(d, valid_values) ==
    IF d # PyNone THEN validate_ip_address(d, valid_values)
    ELSE Return(PyNone, d)

validate_subnet_or_none(d, valid_values) ==
    IF d # PyNone THEN validate_subnet(d, valid_values)
    ELSE Return(PyNone, d)

\* re.match(valid_values, data) for the patterns used here: a pattern of
\* one literal token matches the texts that begin with that token, '(' does
\* not compile (re.error), and a pattern or a text that is not a str is a
\* TypeError, which validate_regex catches.
validate_regex(d, valid_values) ==
    IF isinstance(valid_values, "str") /\ valid_values.s = <<"(">>
    THEN Raise("error", d)
    ELSE IF /\ isinstance(valid_values, "str") /\ isinstance(d, "str")
            /\ Len(valid_values.s) = 1 /\ Len(d.s) >= 1
            /\ d.s[1] = valid_values.s[1]
    THEN Return(PyNone, d)
    ELSE Return(Msg("'%s' is not a valid input", <<d>>), d)

validate_regex_or_none(d, valid_values) ==
    IF d # PyNone THEN validate_regex(d, valid_values)
    ELSE Return(PyNone, d)

\* constants.IPV6_PD_POOL_ID
IPV6_PD_POOL_ID == PyStr(<<"prefix_delegation">>)

validate_subnetpool_id(d, valid_values) ==
    IF d # IPV6_PD_POOL_ID THEN validate_uuid_or_none(d, valid_values)
    ELSE Return(PyNone, d)

validate_subnetpool_id_or_none(d, valid_values) ==
    IF d # PyNone THEN validate_subnetpool_id(d, valid_values)
    ELSE Return(PyNone, d)

\* The text of a port range is written one character per token, so that
\* split(':') and the comparison of two texts can be computed.
Digits == {"0", "1", "2", "3", "4", "5", "6", "7", "8", "9"}

\* ord(c)
Ord(c) ==
    CASE c \in Digits -> 48 + (CHOOSE i \in 0..9 : ToString(i) = c)
      [] c = ":" -> 58
      [] OTHER -> 120

\* data.split(sep): the runs between the separators, empty runs included.
RECURSIVE split(_, _)
split(toks, sep) ==
    IF toks = <<>> THEN << <<>> >>
    ELSE LET rest == split(Tail(toks), sep)
         IN  IF Head(toks) = sep THEN << <<>> >> \o rest
             ELSE << <<Head(toks)>> \o Head(rest) >> \o Tail(rest)

\* a > b for two str: the comparison of the texts, character by character.
RECURSIVE StrGreater(_, _)
StrGreater(a, b) ==
    IF a = <<>> THEN FALSE
    ELSE IF b = <<>> THEN TRUE
    ELSE IF Head(a) = Head(b) THEN StrGreater(Tail(a), Tail(b))
    ELSE Ord(Head(a)) > Ord(Head(b))

\* int(p) for a text of digits.
RECURSIVE DigitsValue(_)
DigitsValue(p) ==
    IF p = <<>> THEN 0
    ELSE 10 * DigitsValue(SubSeq(p, 1, Len(p) - 1))
         + (CHOOSE i \in 0..9 : ToString(i) = p[Len(p)])

\* netutils.is_valid_port: int(port) is a port number.
is_valid_port(p) ==
    /\ p # <<>>
    /\ \A i \in DOMAIN p : p[i] \in Digits
    /\ DigitsValue(p) <= 65535

\* for p in ports: the message of the first port that is empty or invalid.
RECURSIVE _validate_ports(_, _)
_validate_ports(ports, d) ==
    IF ports = <<>> THEN Return(PyNone, d)
    ELSE IF Len(Head(ports)) = 0
    THEN Return(Msg("Port range must be two integers separated by a colon.", <<>>), d)
    ELSE IF ~is_valid_port(Head(ports))
    THEN Return(Msg("Invalid port: %s.", <<PyStr(Head(ports))>>), d)
    ELSE _validate_ports(Tail(ports), d)

validate_port_range_or_none(d, valid_values) ==
    IF d = PyNone THEN Return(PyNone, d)
    ELSE IF Truthy(validate_string_or_none(d, PyNone).val)
    THEN Return(Msg("Port range must be a string.", <<>>), d)
    ELSE LET ports == split(d.s, ":")
             each == _validate_ports(ports, d)
         IN  IF Len(ports) > 2
             THEN Return(Msg("Port range must be two integers separated by a colon.", <<>>), d)
             ELSE IF Truthy(each.val) THEN each
             ELSE IF Len(ports) > 1 /\ StrGreater(ports[1], ports[2])
             THEN Return(Msg("First port in a port range must be lower than the second port.", <<>>), d)
             ELSE Return(PyNone, d)

---------------------------------------------------------------------------
(* Composition validators *)

\* The item validators functools.partial binds into _validate_list_of_items.
item_validator(name, item, arg) ==
    CASE name = "validate_string" -> validate_string(item, arg)
      [] name = "validate_uuid" -> validate_uuid(item, arg)
      [] name = "validate_subnet" -> validate_subnet(item, arg)

\* Variant: the item validator is applied to every item, and the first
\* message is returned at the end.
RECURSIVE _validate_each_item_to_the_end(_, _, _, _, _)
_validate_each_item_to_the_end(name, items, arg, d, seen) ==
    IF items = <<>> THEN [Return(PyNone, d) EXCEPT !.visited = seen]
    ELSE LET r == item_validator(name, Head(items), arg)
             now == Append(seen, Head(items))
             rest == _validate_each_item_to_the_end(name, Tail(items), arg, d, now)
         IN  IF r.kind = "raise" THEN [Raise(r.exc, d) EXCEPT !.visited = now]
             ELSE IF Truthy(r.val)
             THEN [Return(r.val, d) EXCEPT !.visited = rest.visited]
             ELSE rest

\* for item in data: msg = item_validator(item, ...); if msg: return msg
\* `seen` holds the items the item validator was applied to so far.
RECURSIVE _validate_each_item(_, _, _, _, _)
_validate_each_item(name, items, arg, d, seen) ==
    IF items = <<>> THEN [Return(PyNone, d) EXCEPT !.visited = seen]
    ELSE LET r == item_validator(name, Head(items), arg)
             now == Append(seen, Head(items))
         IN  IF r.kind = "raise" THEN [Raise(r.exc, d) EXCEPT !.visited = now]
             ELSE IF Truthy(r.val) THEN [Return(r.val, d) EXCEPT !.visited = now]
             ELSE _validate_each_item(name, Tail(items), arg, d, now)

_validate_list_of_items(name, d, arg) ==
    IF ~isinstance(d, "list")
    THEN Return(Msg("'%s' is not a list", <<d>>), d)
    ELSE IF \E i \in DOMAIN d.items : ~Hashable(d.items[i])
    THEN Raise("TypeError", d)
    ELSE IF SetLen(d.items) # Len(d.items)
    THEN IF Joinable(d.items)
         THEN Return(Msg("Duplicate items in the list: '%s'", d.items), d)
         ELSE Raise("TypeError", d)
    ELSE _validate_each_item(name, d.items, arg, d, <<>>)

validate_list_of_unique_strings(d, max_len) ==
    _validate_list_of_items("validate_string", d, max_len)

validate_uuid_list(d, valid_values) ==
    _validate_list_of_items("validate_uuid", d, valid_values)

validate_subnet_list(d, valid_values) ==
    _validate_list_of_items("validate_subnet", d, valid_values)

---------------------------------------------------------------------------
(* Structural validators *)

\* for fixed_ip in data: ...; `ips` are the addresses seen so far.
RECURSIVE _validate_each_fixed_ip(_, _, _)
_validate_each_fixed_ip(items, ips, d) ==
    IF items = <<>> THEN Return(PyNone, d)
    ELSE LET fixed_ip == Head(items)
             fixed_ip_address == DictGet(fixed_ip, PyStr(<<"ip_address">>))
             has_ip == DictHas(fixed_ip, PyStr(<<"ip_address">>))
             ip_msg == IF \E i \in DOMAIN ips : HashEq(ips[i], fixed_ip_address)
                       THEN Return(Msg("Duplicate IP address '%s'",
                                       <<fixed_ip_address>>), d)
                       ELSE validate_ip_address(fixed_ip_address, PyNone)
             subnet_msg == validate_uuid(DictGet(fixed_ip, PyStr(<<"subnet_id">>)),
                                         PyNone)
         IN  IF ~isinstance(fixed_ip, "dict")
             THEN Return(Msg("Invalid data format for fixed IP: '%s'", <<fixed_ip>>), d)
             ELSE IF has_ip /\ Truthy(ip_msg.val)
             THEN Return(ip_msg.val, d)
             ELSE IF DictHas(fixed_ip, PyStr(<<"subnet_id">>)) /\ Truthy(subnet_msg.val)
             THEN Return(subnet_msg.val, d)
             ELSE _validate_each_fixed_ip(
                     Tail(items),
                     IF has_ip THEN Append(ips, fixed_ip_address) ELSE ips, d)

\* Variant: the address of the first fixed IP is not kept.
validate_fixed_ips_forgetful(d, valid_values) ==
    IF ~isinstance(d, "list")
    THEN Return(Msg("Invalid data format for fixed IP: '%s'", <<d>>), d)
    ELSE IF d.items = <<>> THEN Return(PyNone, d)
    ELSE LET first == _validate_each_fixed_ip(<<Head(d.items)>>, <<>>, d)
         IN  IF Truthy(first.val) THEN first
             ELSE _validate_each_fixed_ip(Tail(d.items), <<>>, d)

validate_fixed_ips(d, valid_values) ==
    IF ~isinstance(d, "list")
    THEN Return(Msg("Invalid data format for fixed IP: '%s'", <<d>>), d)
    ELSE _validate_each_fixed_ip(d.items, <<>>, d)

\* x == y: dicts are equal when they have the same keys with equal values,
\* in whatever order; lists when they are equal item by item.
RECURSIVE PyEq(_, _)
PyEq(x, y) ==
    CASE x.t = "dict" /\ y.t = "dict" ->
            /\ Len(x.items) = Len(y.items)
            /\ \A i \in DOMAIN x.items :
                  \E j \in DOMAIN y.items :
                      /\ HashEq(x.items[i].k, y.items[j].k)
                      /\ PyEq(x.items[i].v, y.items[j].v)
      [] x.t = "list" /\ y.t = "list" ->
            /\ Len(x.items) = Len(y.items)
            /\ \A i \in DOMAIN x.items : PyEq(x.items[i], y.items[i])
      [] OTHER -> HashEq(x, y)

\* Variant: the next hop is validated before the destination.
_validate_hostroute_nexthop_first(hostroute, hostroutes, d) ==
    LET keys == _verify_dict_keys(<<PyStr(<<"destination">>), PyStr(<<"nexthop">>)>>,
                                  hostroute, TRUE)
        destination == validate_subnet(DictGet(hostroute, PyStr(<<"destination">>)),
                                       PyNone)
        nexthop == validate_ip_address(DictGet(hostroute, PyStr(<<"nexthop">>)),
                                       PyNone)
    IN  IF Truthy(keys.val) THEN Return(keys.val, d)
        ELSE IF Truthy(nexthop.val) THEN Return(nexthop.val, d)
        ELSE IF Truthy(destination.val) THEN Return(destination.val, d)
        ELSE IF \E i \in DOMAIN hostroutes : PyEq(hostroutes[i], hostroute)
        THEN Return(Msg("Duplicate hostroute '%s'", <<hostroute>>), d)
        ELSE Return(PyNone, d)

\* The checks made on one host route, in the order of the code; `hostroutes`
\* are the host routes accepted so far.
_validate_hostroute(hostroute, hostroutes, d) ==
    LET keys == _verify_dict_keys(<<PyStr(<<"destination">>), PyStr(<<"nexthop">>)>>,
                                  hostroute, TRUE)
        destination == validate_subnet(DictGet(hostroute, PyStr(<<"destination">>)),
                                       PyNone)
        nexthop == validate_ip_address(DictGet(hostroute, PyStr(<<"nexthop">>)),
                                       PyNone)
    IN  IF Truthy(keys.val) THEN Return(keys.val, d)
        ELSE IF Truthy(destination.val) THEN Return(destination.val, d)
        ELSE IF Truthy(nexthop.val) THEN Return(nexthop.val, d)
        ELSE IF \E i \in DOMAIN hostroutes : PyEq(hostroutes[i], hostroute)
        THEN Return(Msg("Duplicate hostroute '%s'", <<hostroute>>), d)
        ELSE Return(PyNone, d)

\* for hostroute in data: ...
RECURSIVE _validate_each_hostroute(_, _, _)
_validate_each_hostroute(items, hostroutes, d) ==
    IF items = <<>> THEN Return(PyNone, d)
    ELSE LET r == _validate_hostroute(Head(items), hostroutes, d)
         IN  IF Truthy(r.val) THEN r
             ELSE _validate_each_hostroute(Tail(items),
                                           Append(hostroutes, Head(items)), d)

validate_hostroutes(d, valid_values) ==
    IF ~isinstance(d, "list")
    THEN Return(Msg("Invalid data format for hostroute: '%s'", <<d>>), d)
    ELSE _validate_each_hostroute(d.items, <<>>, d)

\* for subport in data: ...; `subport_ids` are the port ids seen so far,
\* `segmentations` the <<segmentation_type, segmentation_id>> recorded.
RECURSIVE _validate_each_subport(_, _, _, _)
_validate_each_subport(items, subport_ids, segmentations, d) ==
    IF items = <<>> THEN Return(PyNone, d)
    ELSE LET subport == Head(items)
             port_id == DictGet(subport, PyStr(<<"port_id">>))
             segmentation_id == DictGet(subport, PyStr(<<"segmentation_id">>))
             segmentation_type == DictGet(subport, PyStr(<<"segmentation_type">>))
         IN  IF ~isinstance(subport, "dict")
             THEN Return(Msg("Invalid data format for subport: '%s' is not a dict",
                             <<subport>>), d)
             ELSE IF ~DictHas(subport, PyStr(<<"port_id">>))
             THEN Return(Msg("A valid port UUID must be specified", <<>>), d)
             ELSE IF Truthy(validate_uuid(port_id, PyNone).val)
             THEN Return(Msg("Invalid UUID for subport: '%s'", <<port_id>>), d)
             ELSE IF port_id \in subport_ids
             THEN Return(Msg("Non unique UUID for subport: '%s'", <<port_id>>), d)
             ELSE IF /\ ~Truthy(segmentation_id) \/ ~Truthy(segmentation_type)
                     /\ Len(subport.items) > 1
             THEN Return(Msg("Invalid subport details '%s': missing segmentation information. Must specify both segmentation_id and segmentation_type",
                             <<subport>>), d)
             ELSE IF ~Hashable(segmentation_type) \/ ~Hashable(segmentation_id)
             THEN Raise("TypeError", d)
             ELSE IF \E sg \in segmentations :
                        /\ HashEq(sg[1], segmentation_type)
                        /\ HashEq(sg[2], segmentation_id)
             THEN Return(Msg("Segmentation ID '%(seg_id)s' for '%(subport)s' is not unique",
                             <<segmentation_id, port_id>>), d)
             ELSE _validate_each_subport(
                     Tail(items), subport_ids \cup {port_id},
                     IF Truthy(segmentation_id)
                     THEN segmentations \cup {<<segmentation_type, segmentation_id>>}
                     ELSE segmentations, d)

\* Variant: a segmentation id may be used once, whatever the type.
RECURSIVE _validate_each_subport_one_space(_, _, _, _)
_validate_each_subport_one_space(items, subport_ids, segmentations, d) ==
    IF items = <<>> THEN Return(PyNone, d)
    ELSE LET first == _validate_each_subport(<<Head(items)>>, subport_ids,
                                             segmentations, d)
             segmentation_id == DictGet(Head(items), PyStr(<<"segmentation_id">>))
         IN  IF first.kind = "raise" \/ Truthy(first.val) THEN first
             ELSE IF \E sg \in segmentations : HashEq(sg[2], segmentation_id)
             THEN Return(Msg("Segmentation ID '%(seg_id)s' for '%(subport)s' is not unique",
                             <<segmentation_id,
                               DictGet(Head(items), PyStr(<<"port_id">>))>>), d)
             ELSE _validate_each_subport_one_space(
                     Tail(items),
                     subport_ids \cup {DictGet(Head(items), PyStr(<<"port_id">>))},
                     IF Truthy(segmentation_id)
                     THEN segmentations
                          \cup {<<DictGet(Head(items), PyStr(<<"segmentation_type">>)),
                                  segmentation_id>>}
                     ELSE segmentations, d)

validate_subports_one_space(d, valid_values) ==
    IF ~isinstance(d, "list")
    THEN Return(Msg("Invalid data format for subports: '%s' is not a list", <<d>>), d)
    ELSE _validate_each_subport_one_space(d.items, {}, {}, d)

validate_subports(d, valid_values) ==
    IF ~isinstance(d, "list")
    THEN Return(Msg("Invalid data format for subports: '%s' is not a list", <<d>>), d)
    ELSE _validate_each_subport(d.items, {}, {}, d)

---------------------------------------------------------------------------
(* The dict schema validator *)

\* The conversion functions a key-spec may name under 'convert_to':
\*   wrap_in_list                lambda x: [x]
\*   convert_none_to_empty_dict  lambda x: {} if x is None else x
conv_func(f, x) ==
    CASE f.s = <<"wrap_in_list">> -> PyList(<<x>>)
      [] f.s = <<"convert_none_to_empty_dict">> ->
            IF x = PyNone THEN PyDict(<<>>) ELSE x

\* The validators a client registers with add_validator: validate_accept
\* returns None for every data, validate_reject a message for every data.
CustomNames ==
    {"validate_accept", "validate_accept_reloaded", "partial_validate_accept",
     "validate_reject"}

validate_custom(name, d) ==
    IF name = "validate_reject"
    THEN Return(Msg("'%s' is rejected", <<d>>), d)
    ELSE Return(PyNone, d)

\* Variant: the last entry of a key-spec whose name starts with 'type:'.
last_type_entry(key_validator) ==
    LET es == key_validator.items
        hits == {i \in DOMAIN es : startswith_type(es[i].k.s)}
    IN  IF hits = {} THEN 0 ELSE CHOOSE i \in hits : \A j \in hits : i >= j

\* The first entry of a key-spec whose name starts with 'type:', or 0.
first_type_entry(key_validator) ==
    LET es == key_validator.items
        hits == {i \in DOMAIN es : startswith_type(es[i].k.s)}
    IN  IF hits = {} THEN 0 ELSE CHOOSE i \in hits : \A j \in hits : i <= j

RECURSIVE val_func(_, _, _, _)
RECURSIVE validate_dict(_, _, _)

\* Variant: validators[k] is read without catching KeyError.
_validate_dict_item_unguarded(reg, key, key_validator, d) ==
    LET cf == DictGet(key_validator, PyStr(<<"convert_to">>))
        d1 == IF Truthy(cf) THEN DictSet(d, key, conv_func(cf, DictGet(d, key)))
              ELSE d
        e  == first_type_entry(key_validator)
    IN  IF e = 0 THEN Return(PyNone, d1)
        ELSE LET k == key_validator.items[e].k
                 val_params == key_validator.items[e].v
             IN  IF k.s \notin DOMAIN reg
                 THEN Raise("KeyError", d1)
                 ELSE LET r == val_func(reg, reg[k.s], DictGet(d1, key), val_params)
                          d2 == DictSet(d1, key, r.data)
                      IN  IF r.kind = "raise" THEN Raise(r.exc, d2)
                          ELSE Return(r.val, d2)

\* Variant: the value is converted after it is validated.
_validate_dict_item_converting_late(reg, key, key_validator, d) ==
    LET cf == DictGet(key_validator, PyStr(<<"convert_to">>))
        e  == first_type_entry(key_validator)
        r  == IF e = 0 THEN Return(PyNone, d)
              ELSE LET k == key_validator.items[e].k
                   IN  IF k.s \notin DOMAIN reg
                       THEN Return(Msg("Validator '%s' does not exist.", <<k>>), d)
                       ELSE LET c == val_func(reg, reg[k.s], DictGet(d, key),
                                              key_validator.items[e].v)
                            IN  [c EXCEPT !.data = DictSet(d, key, c.data)]
    IN  IF r.kind = "raise" \/ Truthy(r.val) \/ ~Truthy(cf) THEN r
        ELSE [r EXCEPT !.data =
                 DictSet(r.data, key, conv_func(cf, DictGet(r.data, key)))]

\* Variant: the value is converted twice.
_validate_dict_item_converting_twice(reg, key, key_validator, d) ==
    LET cf == DictGet(key_validator, PyStr(<<"convert_to">>))
        d1 == IF Truthy(cf)
              THEN DictSet(d, key, conv_func(cf, conv_func(cf, DictGet(d, key))))
              ELSE d
        e  == first_type_entry(key_validator)
    IN  IF e = 0 THEN Return(PyNone, d1)
        ELSE LET k == key_validator.items[e].k
                 val_params == key_validator.items[e].v
             IN  IF k.s \notin DOMAIN reg
                 THEN Return(Msg("Validator '%s' does not exist.", <<k>>), d1)
                 ELSE LET r == val_func(reg, reg[k.s], DictGet(d1, key), val_params)
                          d2 == DictSet(d1, key, r.data)
                      IN  IF r.kind = "raise" THEN Raise(r.exc, d2)
                          ELSE Return(r.val, d2)

_validate_dict_item(reg, key, key_validator, d) ==
    LET cf == DictGet(key_validator, PyStr(<<"convert_to">>))
        d1 == IF Truthy(cf) THEN DictSet(d, key, conv_func(cf, DictGet(d, key)))
              ELSE d
        e  == first_type_entry(key_validator)
    IN  IF e = 0 THEN Return(PyNone, d1)
        ELSE LET k == key_validator.items[e].k
                 val_params == key_validator.items[e].v
             IN  IF k.s \notin DOMAIN reg
                 THEN Return(Msg("Validator '%s' does not exist.", <<k>>), d1)
                 ELSE LET r == val_func(reg, reg[k.s], DictGet(d1, key), val_params)
                          \* the value is validated in place
                          d2 == DictSet(d1, key, r.data)
                      IN  IF r.kind = "raise" THEN Raise(r.exc, d2)
                          ELSE Return(r.val, d2)

\* Variant: every key is processed and the first message is returned at the
\* end.
RECURSIVE _validate_dict_items_exhaustive(_, _, _, _)
_validate_dict_items_exhaustive(reg, pairs, d, seen) ==
    IF pairs = <<>> THEN [Return(PyNone, d) EXCEPT !.visited = seen]
    ELSE LET r == _validate_dict_item(reg, Head(pairs).k, Head(pairs).v, d)
             now == Append(seen, Head(pairs).k)
             rest == _validate_dict_items_exhaustive(reg, Tail(pairs), r.data, now)
         IN  IF r.kind = "raise" THEN [r EXCEPT !.visited = now]
             ELSE IF Truthy(r.val)
             THEN [rest EXCEPT !.kind = "return", !.val = r.val, !.exc = ""]
             ELSE rest

\* for key, key_validator in [...]: msg = _validate_dict_item(...)
RECURSIVE _validate_dict_items(_, _, _, _)
_validate_dict_items(reg, pairs, d, seen) ==
    IF pairs = <<>> THEN [Return(PyNone, d) EXCEPT !.visited = seen]
    ELSE LET r == _validate_dict_item(reg, Head(pairs).k, Head(pairs).v, d)
             now == Append(seen, Head(pairs).k)
         IN  IF r.kind = "raise" \/ Truthy(r.val)
             THEN [r EXCEPT !.visited = now]
             ELSE _validate_dict_items(reg, Tail(pairs), r.data, now)

KeysOf(entries) == [i \in DOMAIN entries |-> entries[i].k]

\* Variant: the unexpected keys are looked for before the required keys.
validate_dict_unexpected_first(reg, d, key_specs) ==
    IF ~isinstance(d, "dict")
    THEN Return(Msg("'%s' is not a dictionary", <<d>>), d)
    ELSE IF ~Truthy(key_specs)
    THEN Return(PyNone, d)
    ELSE LET is_required(e) == Truthy(DictGet(e.v, PyStr(<<"required">>)))
             required_keys == KeysOf(SelectSeq(key_specs.items, is_required))
             missing == IF required_keys # <<>>
                        THEN _verify_dict_keys(required_keys, d, FALSE)
                        ELSE Return(PyNone, d)
             is_unexpected(e) == ~DictHas(key_specs, e.k)
             unexpected_keys == KeysOf(SelectSeq(d.items, is_unexpected))
             in_data(e) == DictHas(d, e.k)
         IN  IF unexpected_keys # <<>>
             THEN IF Joinable(unexpected_keys)
                  THEN Return(Msg("Unexpected keys supplied: %s", unexpected_keys), d)
                  ELSE Raise("TypeError", d)
             ELSE IF Truthy(missing.val) THEN missing
             ELSE _validate_dict_items(reg, SelectSeq(key_specs.items, in_data),
                                       d, <<>>)

\* Variant: every key of the schema is processed, in the payload or not.
validate_dict_every_key(reg, d, key_specs) ==
    IF ~isinstance(d, "dict")
    THEN Return(Msg("'%s' is not a dictionary", <<d>>), d)
    ELSE IF ~Truthy(key_specs)
    THEN Return(PyNone, d)
    ELSE LET is_required(e) == Truthy(DictGet(e.v, PyStr(<<"required">>)))
             required_keys == KeysOf(SelectSeq(key_specs.items, is_required))
             missing == IF required_keys # <<>>
                        THEN _verify_dict_keys(required_keys, d, FALSE)
                        ELSE Return(PyNone, d)
             is_unexpected(e) == ~DictHas(key_specs, e.k)
             unexpected_keys == KeysOf(SelectSeq(d.items, is_unexpected))
         IN  IF Truthy(missing.val) THEN missing
             ELSE IF unexpected_keys # <<>>
             THEN IF Joinable(unexpected_keys)
                  THEN Return(Msg("Unexpected keys supplied: %s", unexpected_keys), d)
                  ELSE Raise("TypeError", d)
             ELSE _validate_dict_items(reg, key_specs.items, d, <<>>)

validate_dict(reg, d, key_specs) ==
    IF ~isinstance(d, "dict")
    THEN Return(Msg("'%s' is not a dictionary", <<d>>), d)
    ELSE IF ~Truthy(key_specs)
    THEN Return(PyNone, d)
    ELSE LET is_required(e) == Truthy(DictGet(e.v, PyStr(<<"required">>)))
             required_keys == KeysOf(SelectSeq(key_specs.items, is_required))
             missing == IF required_keys # <<>>
                        THEN _verify_dict_keys(required_keys, d, FALSE)
                        ELSE Return(PyNone, d)
             is_unexpected(e) == ~DictHas(key_specs, e.k)
             unexpected_keys == KeysOf(SelectSeq(d.items, is_unexpected))
             in_data(e) == DictHas(d, e.k)
         IN  IF Truthy(missing.val) THEN missing
             ELSE IF unexpected_keys # <<>>
             THEN IF Joinable(unexpected_keys)
                  THEN Return(Msg("Unexpected keys supplied: %s", unexpected_keys), d)
                  ELSE Raise("TypeError", d)
             ELSE _validate_dict_items(reg, SelectSeq(key_specs.items, in_data),
                                       d, <<>>)

\* Variant: None is accepted as the empty dict is.
validate_dict_or_empty_or_none(reg, d, key_specs) ==
    IF d # PyDict(<<>>) /\ d # PyNone THEN validate_dict(reg, d, key_specs)
    ELSE Return(PyNone, d)

validate_dict_or_none(reg, d, key_specs) ==
    IF d # PyNone THEN validate_dict(reg, d, key_specs)
    ELSE Return(PyNone, d)

validate_dict_or_empty(reg, d, key_specs) ==
    IF d # PyDict(<<>>) THEN validate_dict(reg, d, key_specs)
    ELSE Return(PyNone, d)

validate_dict_or_nodata(reg, d, key_specs) ==
    IF Truthy(d) THEN validate_dict(reg, d, key_specs)
    ELSE Return(PyNone, d)

\* val_func(data, val_params): the call of a registered validator.
val_func(reg, fn, d, params) ==
    CASE fn.name = "validate_dict" -> validate_dict(reg, d, params)
      [] fn.name = "validate_range" -> validate_range(d, params)
      [] fn.name = "validate_port_range_or_none" ->
            validate_port_range_or_none(d, params)
      [] fn.name = "validate_dict_or_none" -> validate_dict_or_none(reg, d, params)
      [] fn.name = "validate_dict_or_empty" -> validate_dict_or_empty(reg, d, params)
      [] fn.name = "validate_dict_or_nodata" -> validate_dict_or_nodata(reg, d, params)
      [] fn.name = "validate_fixed_ips" -> validate_fixed_ips(d, params)
      [] fn.name = "validate_hostroutes" -> validate_hostroutes(d, params)
      [] fn.name = "validate_subports" -> validate_subports(d, params)
      [] fn.name = "validate_string" -> validate_string(d, params)
      [] fn.name = "validate_string_or_none" -> validate_string_or_none(d, params)
      [] fn.name = "validate_not_empty_string" -> validate_not_empty_string(d, params)
      [] fn.name = "validate_not_empty_string_or_none" ->
            validate_not_empty_string_or_none(d, params)
      [] fn.name = "validate_mac_address" -> validate_mac_address(d, params)
      [] fn.name = "validate_mac_address_or_none" ->
            validate_mac_address_or_none(d, params)
      [] fn.name = "validate_ip_address" -> validate_ip_address(d, params)
      [] fn.name = "validate_ip_address_or_none" ->
            validate_ip_address_or_none(d, params)
      [] fn.name = "validate_subnet" -> validate_subnet(d, params)
      [] fn.name = "validate_subnet_or_none" -> validate_subnet_or_none(d, params)
      [] fn.name = "validate_regex" -> validate_regex(d, params)
      [] fn.name = "validate_regex_or_none" -> validate_regex_or_none(d, params)
      [] fn.name = "validate_subnetpool_id" -> validate_subnetpool_id(d, params)
      [] fn.name = "validate_subnetpool_id_or_none" ->
            validate_subnetpool_id_or_none(d, params)
      [] fn.name = "validate_uuid" -> validate_uuid(d, params)
      [] fn.name = "validate_uuid_or_none" -> validate_uuid_or_none(d, params)
      [] fn.name = "validate_uuid_list" -> validate_uuid_list(d, params)
      [] fn.name = "validate_subnet_list" -> validate_subnet_list(d, params)
      [] fn.name = "validate_list_of_unique_strings" ->
            validate_list_of_unique_strings(d, params)
      [] fn.name \in CustomNames -> validate_custom(fn.name, d)

---------------------------------------------------------------------------
(* The calls a client makes: their arguments *)

\* Integers of payloads are 0..MaxInt; lists have at most MaxListLen items.
MaxInt == 2

MaxListLen == 2

\* add_validator's and get_validator's validation types: a bare name and its
\* prefixed form, for an unregistered and for a built-in tag.
ValidationTypes == {<<"x">>, Tag("x"), <<"range">>, Tag("range")}

\* The validators a client hands to add_validator: two different functions,
\* a function defined again from the same source (a module loaded twice), a
\* functools.partial, and a built-in.
Candidates ==
    {Function("validate_accept", "def validate_accept"),
     Function("validate_accept_reloaded", "def validate_accept"),
     Function("validate_reject", "def validate_reject"),
     Function("partial_validate_accept", NoSource),
     Builtin("validate_range")}

Defaults == {PyNone, PyStr(<<"default">>)}

TypeEntry(name, params) == Entry(PyStr(Tag(name)), params)

\* A key-spec: {'required': True, 'convert_to': conv, 'type:..': params, ..}
KeySpec(required, conv, types) ==
    PyDict((IF required
            THEN <<Entry(PyStr(<<"required">>), PyBool(TRUE))>> ELSE <<>>)
           \o (IF conv # ""
               THEN <<Entry(PyStr(<<"convert_to">>), PyFunc(conv))>> ELSE <<>>)
           \o types)

RangeParams == PyList(<<PyInt(0), PyInt(1)>>)

\* The 'type:' entries of a key-spec: none, one, or two in either order.
TypeEntries ==
    {<<>>,
     <<TypeEntry("range", RangeParams)>>,
     <<TypeEntry("x", PyNone)>>,
     <<TypeEntry("nosuch", PyNone)>>,
     <<TypeEntry("list_of_unique_strings", PyNone)>>,
     <<TypeEntry("x", PyNone), TypeEntry("range", RangeParams)>>,
     <<TypeEntry("range", RangeParams), TypeEntry("x", PyNone)>>}

\* The key-specs of a nested dict.
NestedSpecs ==
    PyDict(<<Entry(PyStr(<<"a">>),
                   KeySpec(FALSE, "wrap_in_list",
                           <<TypeEntry("list_of_unique_strings", PyNone)>>))>>)

KeySpecsA ==
    {KeySpec(FALSE, conv, types) :
        conv \in {"", "wrap_in_list"}, types \in TypeEntries}
    \cup {KeySpec(TRUE, "", <<TypeEntry("range", RangeParams)>>),
          KeySpec(TRUE, "wrap_in_list", <<>>),
          KeySpec(FALSE, "", <<TypeEntry("dict", NestedSpecs)>>),
          KeySpec(FALSE, "convert_none_to_empty_dict",
                  <<TypeEntry("dict", NestedSpecs)>>)}

KeySpecsB ==
    {KeySpec(FALSE, "", <<TypeEntry("range", RangeParams)>>),
     KeySpec(TRUE, "", <<TypeEntry("range", RangeParams)>>),
     KeySpec(FALSE, "wrap_in_list", <<TypeEntry("range", RangeParams)>>)}

KeyA == PyStr(<<"a">>)

KeyB == PyStr(<<"b">>)

\* The schemas: over the keys 'a' and 'b', in either iteration order.
Schemas ==
    {PyNone, PyDict(<<>>)}
    \cup {PyDict(<<Entry(KeyA, sa)>>) : sa \in KeySpecsA}
    \cup {PyDict(<<Entry(KeyB, sb)>>) : sb \in KeySpecsB}
    \cup {PyDict(<<Entry(KeyA, sa), Entry(KeyB, sb)>>) :
             sa \in KeySpecsA, sb \in KeySpecsB}
    \cup {PyDict(<<Entry(KeyB, sb), Entry(KeyA, sa)>>) :
             sa \in KeySpecsA, sb \in KeySpecsB}

Leaves == {PyNone, PyStr(<<"s">>)} \cup {PyInt(i) : i \in 0..MaxInt}

ValuesA ==
    Leaves \cup {PyDict(<<Entry(KeyA, PyStr(<<"s">>))>>),
                 PyDict(<<Entry(KeyA, PyInt(0))>>)}

\* The payloads: dicts over the keys 'a', 'b' and 1 (not a str).
Payloads ==
    {PyDict(ea \o eb \o ei) :
        ea \in {<<>>} \cup {<<Entry(KeyA, v)>> : v \in ValuesA},
        eb \in {<<>>} \cup {<<Entry(KeyB, PyInt(i))>> : i \in 0..MaxInt},
        ei \in {<<>>, <<Entry(PyInt(1), PyInt(0))>>}}

\* What validate_dict is given that is not a dict.
NotDicts == {PyNone, PyInt(0), PyList(<<>>)}

RECURSIVE SeqsUpTo(_, _)
SeqsUpTo(S, n) ==
    IF n = 0 THEN {<<>>}
    ELSE LET shorter == SeqsUpTo(S, n - 1)
         IN  shorter \cup {Append(xs, x) : xs \in shorter, x \in S}

\* The items of the lists given to the list validators.
Items ==
    {PyStr(<<"s">>), PyStr(<<"uuid1">>), PyStr(<<"uuid2">>),
     PyStr(<<"10.0.0.0/24">>), PyInt(1), PyDict(<<>>)}

Lists == {PyList(xs) : xs \in SeqsUpTo(Items, MaxListLen)}

\* The validators called directly, each with the constraints it takes.
ListCalls ==
    {<<Tag("uuid_list"), PyNone>>,
     <<Tag("subnet_list"), PyNone>>,
     <<Tag("list_of_unique_strings"), PyNone>>,
     <<Tag("list_of_unique_strings"), PyInt(1)>>}

---------------------------------------------------------------------------
(* The state machine *)

RegistryCalls == {"idle", "add_validator", "get_validator"}

NoArgs == [none |-> TRUE]

NoRet == [kind |-> "none", val |-> PyNone, exc |-> ""]

Outcome(r) == [kind |-> r.kind, val |-> r.val, exc |-> r.exc]

\* No call of add_validator is under way in another thread.
NoThreads == <<>>

Init ==
    /\ validators = InitialValidators
    /\ call = "idle"
    /\ args = NoArgs
    /\ data = PyNone
    /\ visited = <<>>
    /\ ret = NoRet
    /\ threads = NoThreads

\* Registry calls follow one another, or a validation whose result the caller
\* has taken.
AddValidator ==
    /\ call \in RegistryCalls
    /\ \E validation_type \in ValidationTypes, validator \in Candidates :
          LET r == add_validator(validators, validation_type, validator)
          IN  /\ validators' = r.validators
              /\ call' = "add_validator"
              /\ args' = [validation_type |-> validation_type,
                          validator |-> validator]
              /\ data' = PyNone
              /\ visited' = <<>>
              /\ ret' = Outcome(r.ret)
              /\ UNCHANGED threads

NotFound == Function("", "")

GetValidator ==
    /\ call \in RegistryCalls
    /\ \E validation_type \in ValidationTypes \cup {<<"y">>}, default \in Defaults :
          LET v == get_validator(validators, validation_type, NotFound)
          IN  /\ call' = "get_validator"
              /\ args' = [validation_type |-> validation_type,
                          default |-> default]
              /\ ret' = [NoRet EXCEPT !.kind = "return",
                                      !.val = IF v = NotFound THEN default
                                              ELSE PyFunc(v.name)]
              /\ data' = PyNone
              /\ visited' = <<>>
              /\ UNCHANGED <<validators, threads>>

\* One validation call on a fresh payload: `args.data` is the payload as the
\* caller built it, `data` the same object when the call is over.
ValidateDict ==
    /\ call = "idle"
    /\ \E d \in Payloads \cup NotDicts, key_specs \in Schemas :
          LET r == validate_dict(validators, d, key_specs)
          IN  /\ call' = "validate_dict"
              /\ args' = [data |-> d, key_specs |-> key_specs]
              /\ data' = r.data
              /\ visited' = r.visited
              /\ ret' = Outcome(r)
              /\ UNCHANGED <<validators, threads>>

\* A registered validator looked up by its tag and called.
CallValidator ==
    /\ call = "idle"
    /\ \E c \in ListCalls, d \in Lists \cup {PyNone} :
          LET r == val_func(validators, validators[c[1]], d, c[2])
          IN  /\ call' = "validator"
              /\ args' = [validation_type |-> c[1], data |-> d, params |-> c[2]]
              /\ data' = r.data
              /\ visited' = r.visited
              /\ ret' = Outcome(r)
              /\ UNCHANGED <<validators, threads>>

\* The caller has taken the result; the payload is dropped.
Done ==
    /\ call # "idle"
    /\ call' = "idle"
    /\ args' = NoArgs
    /\ data' = PyNone
    /\ visited' = <<>>
    /\ ret' = NoRet
    /\ UNCHANGED <<validators, threads>>

Next ==
    \/ AddValidator
    \/ GetValidator
    \/ ValidateDict
    \/ CallValidator
    \/ Done

Spec == Init /\ [][Next]_vars

---------------------------------------------------------------------------
(* Properties of the registry *)

\* C2: whatever add_validator does, every tag bound before the call is bound
\* to the same validator after it: no tag is rebound or removed, the key set
\* of the registry only grows.
C2_BindingsAreStable ==
    [][\A tag \in DOMAIN validators :
          tag \in DOMAIN validators' /\ validators'[tag] = validators[tag]]_vars

C2_Witness ==
    /\ call = "add_validator"
    /\ ret.kind = "raise"
    /\ Tag("x") \in DOMAIN validators
    /\ validators[Tag("x")] # args.validator

\* Two validators are different implementations when their sources differ
\* (a validator without source differs from every other object).
DifferentImplementation(v, w) ==
    v.src # w.src \/ (v.src = NoSource /\ v # w)

C4_SecondCallIsNoOp ==
    [][(/\ call = "add_validator"
        /\ ret.kind = "return"
        /\ call' = "add_validator"
        /\ args' = args)
       => (ret'.kind = "return" /\ validators' = validators)]_vars

\* The bare name of a validation type.
BareName(validation_type) ==
    IF startswith_type(validation_type) THEN Tail(validation_type)
    ELSE validation_type

\* C5: a bare name n and 'type:' + n name the same entry. After
\* add_validator under either form on an unregistered tag, get_validator
\* under both forms gives the validator added; get_validator gives the
\* registered validator under either form, the caller's default for an
\* unregistered tag, and never changes the registry.
C5_TagNormalization ==
    [][/\ (/\ call' = "add_validator"
           /\ <<"type:">> \o BareName(args'.validation_type)
                 \notin DOMAIN validators)
          => LET n == BareName(args'.validation_type)
             IN  /\ get_validator(validators', n, NotFound) = args'.validator
                 /\ get_validator(validators', <<"type:">> \o n, NotFound)
                       = args'.validator
       /\ call' = "get_validator"
          => LET n == BareName(args'.validation_type)
             IN  /\ validators' = validators
                 /\ ret'.kind = "return"
                 /\ ret'.val = IF <<"type:">> \o n \in DOMAIN validators
                               THEN PyFunc(validators[<<"type:">> \o n].name)
                               ELSE args'.default]_vars

C5_Witness ==
    /\ call = "get_validator"
    /\ args.validation_type = <<"x">>
    /\ ret.val = PyFunc("validate_reject")

C5_WitnessDefault ==
    /\ call = "get_validator"
    /\ args.validation_type = Tag("x")
    /\ args.default = PyStr(<<"default">>)
    /\ ret.val = PyStr(<<"default">>)

---------------------------------------------------------------------------
(* Properties of the dict schema validator *)

Succeeded == ret.kind = "return" /\ ret.val = PyNone

Failed == ret.kind = "return" /\ Truthy(ret.val)

ConvertTo(key_validator) == DictGet(key_validator, PyStr(<<"convert_to">>))

\* convert_to applied once to v, v itself when the key-spec declares none.
Converted(key_validator, v) ==
    IF Truthy(ConvertTo(key_validator))
    THEN conv_func(ConvertTo(key_validator), v)
    ELSE v

\* The key-spec names a validator (its first 'type:' entry) that is
\* registered.
Resolves(key_validator) ==
    LET e == first_type_entry(key_validator)
    IN  e # 0 /\ key_validator.items[e].k.s \in DOMAIN validators

Unregistered(key_validator) ==
    LET e == first_type_entry(key_validator)
    IN  e # 0 /\ key_validator.items[e].k.s \notin DOMAIN validators

\* The call of the validator the key-spec resolves to, on the converted value.
Validation(key_validator, v) ==
    LET entry == key_validator.items[first_type_entry(key_validator)]
    IN  val_func(validators, validators[entry.k.s],
                 Converted(key_validator, v), entry.v)

\* The key passes: it has no validator, or its validator is registered and
\* returns no message on the converted value.
KeyPasses(key_validator, v) ==
    \/ first_type_entry(key_validator) = 0
    \/ /\ Resolves(key_validator)
       /\ Validation(key_validator, v).kind = "return"
       /\ ~Truthy(Validation(key_validator, v).val)

RequiredPresent(d, key_specs) ==
    \A i \in DOMAIN key_specs.items :
        Truthy(DictGet(key_specs.items[i].v, PyStr(<<"required">>)))
            => DictHas(d, key_specs.items[i].k)

NoneUnexpected(d, key_specs) ==
    \A j \in DOMAIN d.items : DictHas(key_specs, d.items[j].k)

EveryKeyPasses(d, key_specs) ==
    \A i \in DOMAIN key_specs.items :
        DictHas(d, key_specs.items[i].k)
            => KeyPasses(key_specs.items[i].v, DictGet(d, key_specs.items[i].k))

SchemaSatisfied(d, key_specs) ==
    /\ RequiredPresent(d, key_specs)
    /\ NoneUnexpected(d, key_specs)
    /\ EveryKeyPasses(d, key_specs)

OnDict == call = "validate_dict" /\ isinstance(args.data, "dict")

\* C1 as stated: for every payload dict and every schema, the empty one
\* included, validate_dict returns no message exactly when the required keys
\* are present, no key is unexpected and every key present passes.
C1_AsStated ==
    OnDict => (Succeeded <=> SchemaSatisfied(args.data, args.key_specs))

\* C1: for every payload dict, validate_dict returns no message exactly when
\* the schema is empty (or None) or the required keys are present, no key
\* is unexpected and every key present passes (a key whose validator tag is
\* not registered does not pass, a key without validator tag does).
C1_SuccessIffSchemaSatisfied ==
    OnDict => (Succeeded <=> \/ ~Truthy(args.key_specs)
                             \/ SchemaSatisfied(args.data, args.key_specs))

C1_Witness ==
    /\ OnDict
    /\ Succeeded
    /\ Len(visited) = 2
    /\ Truthy(DictGet(DictGet(args.key_specs, KeyA), PyStr(<<"required">>)))

C1_WitnessRejected ==
    /\ OnDict
    /\ Failed
    /\ Truthy(args.key_specs)
    /\ ~RequiredPresent(args.data, args.key_specs)

\* The key validate_dict handled last, and its key-spec.
LastKey == visited[Len(visited)]

LastSpec == DictGet(args.key_specs, LastKey)

ReachedUnregistered ==
    /\ call = "validate_dict"
    /\ visited # <<>>
    /\ Unregistered(LastSpec)

\* C6 as stated: a key-spec naming a validator tag that is not registered
\* makes validate_dict raise.
C6_AsStated == ReachedUnregistered => ret.kind = "raise"

\* C6: a key-spec naming a validator tag that is not registered makes
\* validate_dict return the message "Validator '<tag>' does not exist.";
\* nothing is raised.
C6_UnregisteredTagIsAMessage ==
    ReachedUnregistered
        => /\ ret.kind = "return"
           /\ ret.val = Msg("Validator '%s' does not exist.",
                            <<LastSpec.items[first_type_entry(LastSpec)].k>>)

C6_Witness ==
    /\ ReachedUnregistered
    /\ Len(visited) = 2
    /\ LastSpec.items[first_type_entry(LastSpec)].k = PyStr(Tag("x"))

\* C7: a validator called with a well-formed constraint returns, a message
\* or None, whatever the data; it does not raise.
C7_ValidatorsNeverRaise ==
    call \in {"validator", "validate_dict"} => ret.kind = "return"

\* The validator of the key-spec is validate_dict, which converts the values
\* of the nested dict in place.
ValidatesInPlace(key_validator) ==
    /\ Resolves(key_validator)
    /\ validators[key_validator.items[first_type_entry(key_validator)].k.s].name
          = "validate_dict"

C8_WitnessNested ==
    /\ OnDict
    /\ Succeeded
    /\ Truthy(ConvertTo(DictGet(args.key_specs, KeyA)))
    /\ ValidatesInPlace(DictGet(args.key_specs, KeyA))
    /\ DictGet(data, KeyA) # DictGet(args.data, KeyA)

\* The validator of the key handled last returned a message.
ValidatorFailed ==
    /\ OnDict
    /\ Failed
    /\ visited # <<>>
    /\ Resolves(LastSpec)

Present(d, key_specs) ==
    LET in_data(e) == DictHas(d, e.k)
    IN  SelectSeq(key_specs.items, in_data)

\* The first entry of `present` whose key does not pass, or 0.
FirstNotPassing(d, present) ==
    LET bad == {i \in DOMAIN present :
                  ~KeyPasses(present[i].v, DictGet(d, present[i].k))}
    IN  IF bad = {} THEN 0 ELSE CHOOSE i \in bad : \A j \in bad : i <= j

\* C10: the keys present in payload and schema are processed in schema
\* order up to the first key that does not pass, and no further: when that
\* key's validator returned a message, the message is the result; the keys
\* before it were all processed and the keys after it are neither validated
\* nor converted, their payload values are as before the call. When every
\* key passes, every key is processed.
C10_FirstFailureInSchemaOrder ==
    (/\ OnDict
     /\ Truthy(args.key_specs)
     /\ RequiredPresent(args.data, args.key_specs)
     /\ NoneUnexpected(args.data, args.key_specs))
        => LET present == Present(args.data, args.key_specs)
               first == FirstNotPassing(args.data, present)
           IN  IF first = 0
               THEN visited = KeysOf(present) /\ Succeeded
               ELSE /\ visited = KeysOf(SubSeq(present, 1, first))
                    /\ ~Succeeded
                    /\ Resolves(present[first].v) /\ ret.kind = "return"
                          => ret.val = Validation(
                                present[first].v,
                                DictGet(args.data, present[first].k)).val
                    /\ \A j \in first + 1 .. Len(present) :
                          DictGet(data, present[j].k)
                             = DictGet(args.data, present[j].k)

C10_Witness ==
    /\ OnDict
    /\ Failed
    /\ visited = <<KeyB>>
    /\ Resolves(LastSpec)
    /\ Len(Present(args.data, args.key_specs)) = 2
    /\ Truthy(ConvertTo(DictGet(args.key_specs, KeyA)))
    /\ DictGet(data, KeyA) = DictGet(args.data, KeyA)

---------------------------------------------------------------------------
(* The order of validate_dict's checks *)

RequiredKeys(key_specs) ==
    LET is_required(e) == Truthy(DictGet(e.v, PyStr(<<"required">>)))
    IN  KeysOf(SelectSeq(key_specs.items, is_required))

UnexpectedKeys(d, key_specs) ==
    LET is_unexpected(e) == ~DictHas(key_specs, e.k)
    IN  KeysOf(SelectSeq(d.items, is_unexpected))

\* Some key present in payload and schema has a value its validator rejects.
SomeValueInvalid(d, key_specs) ==
    \E i \in DOMAIN key_specs.items :
        /\ DictHas(d, key_specs.items[i].k)
        /\ Resolves(key_specs.items[i].v)
        /\ Validation(key_specs.items[i].v,
                      DictGet(d, key_specs.items[i].k)).kind = "return"
        /\ Truthy(Validation(key_specs.items[i].v,
                             DictGet(d, key_specs.items[i].k)).val)

\* C11: validate_dict checks in a fixed order. What is not a dict gets the
\* not-a-dictionary message whatever the schema. A dict that lacks a
\* required key gets the missing-keys message with the required and the
\* provided key sets, whether or not it also carries an unexpected key.
\* A dict with every required key and an unexpected key is decided by the
\* unexpected-keys step, whether or not a value is invalid: the
\* unexpected-keys message when the unexpected keys are attribute names
\* (str), a TypeError of the message's join when one is not; either way no
\* key has been converted or validated.
C11_FixedOrder ==
    call = "validate_dict" =>
        IF ~isinstance(args.data, "dict")
        THEN /\ ret.kind = "return"
             /\ ret.val = Msg("'%s' is not a dictionary", <<args.data>>)
        ELSE Truthy(args.key_specs) =>
            IF ~RequiredPresent(args.data, args.key_specs)
            THEN /\ ret.kind = "return"
                 /\ ret.val = Msg("Validation of dictionary's keys failed. Expected keys: %(expected_keys)s Provided keys: %(provided_keys)s",
                                  <<PyList(RequiredKeys(args.key_specs)),
                                    PyList(DictKeys(args.data))>>)
                 /\ visited = <<>> /\ data = args.data
            ELSE ~NoneUnexpected(args.data, args.key_specs) =>
                 /\ visited = <<>> /\ data = args.data
                 /\ IF Joinable(UnexpectedKeys(args.data, args.key_specs))
                    THEN /\ ret.kind = "return"
                         /\ ret.val = Msg("Unexpected keys supplied: %s",
                                          UnexpectedKeys(args.data, args.key_specs))
                    ELSE ret.kind = "raise" /\ ret.exc = "TypeError"

\* A required key is missing and the payload carries an unexpected key.
C11_Witness ==
    /\ OnDict
    /\ ~RequiredPresent(args.data, args.key_specs)
    /\ ~NoneUnexpected(args.data, args.key_specs)
    /\ Joinable(UnexpectedKeys(args.data, args.key_specs))
    /\ Failed

\* An unexpected key and an invalid value: the unexpected-keys message.
C11_WitnessInvalidValue ==
    /\ OnDict
    /\ RequiredPresent(args.data, args.key_specs)
    /\ SomeValueInvalid(args.data, args.key_specs)
    /\ ret.val = Msg("Unexpected keys supplied: %s", <<KeyA>>)

---------------------------------------------------------------------------
(* The lists of unique items *)

\* A list validator was called on a list with a repeated element.
OnListWithRepeat ==
    /\ call = "validator"
    /\ args.validation_type \in {Tag("uuid_list"), Tag("subnet_list"),
                                 Tag("list_of_unique_strings")}
    /\ isinstance(args.data, "list")
    /\ \E i, j \in DOMAIN args.data.items :
          i < j /\ args.data.items[i] = args.data.items[j]

\* C12: on every list with a repeated element uuid_list, subnet_list and
\* list_of_unique_strings return a failure message, the duplicates message,
\* whether or not the item validator accepts the elements.
C12_RepeatedElementFails ==
    OnListWithRepeat =>
        /\ ret.kind = "return"
        /\ ret.val = Msg("Duplicate items in the list: '%s'", args.data.items)

---------------------------------------------------------------------------
(* The validators called one by one: arguments and state machine *)

\* The sequences over S without a repeated element, of at most n elements.
DistinctSeqs(S, n) ==
    {xs \in SeqsUpTo(S, n) :
        \A i, j \in DOMAIN xs : i # j => xs[i] # xs[j]}

KeyNames == {PyStr(<<"start">>), PyStr(<<"end">>), PyStr(<<"x">>)}

\* expected_keys: a list of key names, a name may come twice.
ExpectedKeys == SeqsUpTo(KeyNames, MaxListLen)

\* target_dict: the dicts over the key names, and what is not a dict.
TargetDicts ==
    {PyDict([i \in DOMAIN ks |-> Entry(ks[i], PyInt(0))]) :
        ks \in DistinctSeqs(KeyNames, MaxListLen + 1)}
    \cup NotDicts

\* What the validators of one value are given: None, the other false
\* values, and texts of every kind the validators tell apart.
Scalars ==
    {PyNone, PyBool(FALSE), PyInt(0), PyInt(1), PyList(<<>>), PyDict(<<>>),
     PyStr(<<>>), PyStr(<<" ">>), PyStr(<<"s">>), PyStr(<<"s", " ">>),
     PyStr(<<"uuid1">>), PyStr(<<"10.0.0.1">>), PyStr(<<"10.0.0.01">>),
     PyStr(<<"10.0.0.0/24">>), PyStr(<<"fa:16:3e:00:00:01">>),
     PyStr(<<"00:00:00:00:00:00">>), IPV6_PD_POOL_ID}

\* The validators X that have an X_or_none, each with the constraints it
\* is given: a max_len, a pattern, or nothing.
OptionalCalls ==
    {<<nm, max_len>> : nm \in {"string", "not_empty_string"},
                       max_len \in {PyNone} \cup {PyInt(i) : i \in 0..MaxInt}}
    \cup {<<nm, PyNone>> : nm \in {"mac_address", "ip_address", "subnet",
                                    "uuid", "subnetpool_id", "regex"}}
    \cup {<<"regex", PyStr(<<"s">>)>>, <<"regex", PyStr(<<"(">>)>>}

\* What the dict validators are given, and the key-specs.
DictData ==
    {PyNone, PyBool(FALSE), PyInt(0), PyInt(1), PyStr(<<>>), PyStr(<<"s">>),
     PyList(<<>>), PyList(<<PyInt(0)>>), PyDict(<<>>),
     PyDict(<<Entry(KeyA, PyStr(<<"s">>))>>),
     PyDict(<<Entry(KeyA, PyInt(0))>>),
     PyDict(<<Entry(KeyB, PyInt(0))>>),
     PyDict(<<Entry(KeyA, PyInt(MaxInt)), Entry(KeyB, PyInt(0))>>)}

DictSchemas ==
    {PyNone, PyDict(<<>>),
     PyDict(<<Entry(KeyA, KeySpec(TRUE, "", <<TypeEntry("range", RangeParams)>>))>>),
     PyDict(<<Entry(KeyA, KeySpec(FALSE, "wrap_in_list",
                                  <<TypeEntry("list_of_unique_strings", PyNone)>>))>>),
     PyDict(<<Entry(KeyA, KeySpec(FALSE, "", <<TypeEntry("range", RangeParams)>>)),
              Entry(KeyB, KeySpec(FALSE, "", <<>>))>>)}

\* validate_range: the bounds, None for no limit, and the data: integers
\* below, at and above the bounds, and what is not an integer.
RangeBounds == {UNLIMITED} \cup {PyInt(i) : i \in 0..MaxInt}

RangeData ==
    {PyInt(i) : i \in -1..MaxInt + 1}
    \cup {PyNone, PyBool(TRUE), PyStr(<<"1">>), PyStr(<<"s">>)}

\* The texts of ports, and the port ranges made of them.
PortTexts ==
    {<<>>, <<"1">>, <<"2">>, <<"9">>, <<"1", "0">>, <<"1", "0", "0">>,
     <<"7", "0", "0", "0", "0">>, <<"x">>}

PortRanges ==
    {PyStr(a) : a \in PortTexts}
    \cup {PyStr(a \o <<":">> \o b) : a, b \in PortTexts}
    \cup {PyStr(<<"1", ":", "2", ":", "9">>), PyNone, PyInt(80)}

\* The subports: a port id, segmentation details of every shape (none, the
\* id alone, the type alone, both, the id 0 included) and possibly a key
\* that is none of these; then a subport without port id, one whose port
\* id is no UUID, one whose segmentation id is a list, and an item that is
\* not a dict.
SegmentationDetails ==
    {<<>>,
     <<Entry(PyStr(<<"segmentation_id">>), PyInt(1))>>,
     <<Entry(PyStr(<<"segmentation_type">>), PyStr(<<"vlan">>))>>}
    \cup {<<Entry(PyStr(<<"segmentation_id">>), PyInt(i)),
            Entry(PyStr(<<"segmentation_type">>), PyStr(<<ty>>))>> :
             i \in 0..MaxInt, ty \in {"vlan", "inherit"}}

Subports ==
    {PyDict(<<Entry(PyStr(<<"port_id">>), PyStr(<<u>>))>> \o sg \o extra) :
        u \in UuidTokens, sg \in SegmentationDetails,
        extra \in {<<>>, <<Entry(PyStr(<<"name">>), PyStr(<<"s">>))>>}}
    \cup {PyDict(<<>>),
          PyDict(<<Entry(PyStr(<<"port_id">>), PyStr(<<"s">>))>>),
          PyDict(<<Entry(PyStr(<<"port_id">>), PyStr(<<"uuid1">>)),
                   Entry(PyStr(<<"segmentation_id">>), PyList(<<PyInt(1)>>)),
                   Entry(PyStr(<<"segmentation_type">>), PyStr(<<"vlan">>))>>),
          PyInt(0)}

\* The fixed IPs: an address or none, a subnet id or none; and an item that
\* is not a dict.
FixedIps ==
    {PyDict(ip \o subnet) :
        ip \in {<<>>} \cup {<<Entry(PyStr(<<"ip_address">>), PyStr(<<a>>))>> :
                               a \in IpTokens \cup {"s", "10.0.0.01"}},
        subnet \in {<<>>} \cup {<<Entry(PyStr(<<"subnet_id">>), PyStr(<<u>>))>> :
                                   u \in {"uuid1", "s"}}}
    \cup {PyStr(<<"10.0.0.1">>)}

\* The host routes: a destination and a next hop, valid or not, with the
\* keys in either order; then host routes with a key missing or a key too
\* many, and an item that is not a dict.
HostRoutes ==
    {PyDict(<<Entry(PyStr(<<"destination">>), PyStr(<<dst>>)),
              Entry(PyStr(<<"nexthop">>), PyStr(<<hop>>))>>) :
        dst \in CidrTokens \cup {"10.0.0.1", "s"}, hop \in IpTokens \cup {"s"}}
    \cup {PyDict(<<Entry(PyStr(<<"nexthop">>), PyStr(<<hop>>)),
                   Entry(PyStr(<<"destination">>), PyStr(<<dst>>))>>) :
             dst \in CidrTokens \cup {"s"}, hop \in IpTokens}
    \cup {PyDict(<<>>),
          PyDict(<<Entry(PyStr(<<"destination">>), PyStr(<<"10.0.0.0/24">>))>>),
          PyDict(<<Entry(PyStr(<<"destination">>), PyStr(<<"s">>)),
                   Entry(PyStr(<<"nexthop">>), PyStr(<<"s">>)),
                   Entry(PyStr(<<"x">>), PyStr(<<"s">>))>>),
          PyStr(<<"10.0.0.0/24">>)}

\* The call of the validator bound to `validation_type` in the registry.
\* The call of the validator bound to validation_type has given r.
Returned(validation_type, d, params, r) ==
    /\ call' = "validator"
    /\ args' = [validation_type |-> validation_type, data |-> d,
                params |-> params]
    /\ data' = r.data
    /\ visited' = r.visited
    /\ ret' = Outcome(r)
    /\ UNCHANGED <<validators, threads>>

\* The validator bound to validation_type, whichever it is, is called.
Called(validation_type, d, params) ==
    Returned(validation_type, d, params,
             val_func(validators, validators[validation_type], d, params))

\* validators[validation_type] is the function of this name.
Bound(validation_type, name) == validators[validation_type] = Builtin(name)

VerifyDictKeys ==
    /\ call = "idle"
    /\ \E expected_keys \in ExpectedKeys, target_dict \in TargetDicts,
          strict \in BOOLEAN :
          LET r == _verify_dict_keys(expected_keys, target_dict, strict)
          IN  /\ call' = "_verify_dict_keys"
              /\ args' = [expected_keys |-> expected_keys,
                          target_dict |-> target_dict, strict |-> strict]
              /\ data' = r.data
              /\ visited' = <<>>
              /\ ret' = Outcome(r)
              /\ UNCHANGED <<validators, threads>>

\* An X_or_none validator, called through its tag.
CallOptional ==
    /\ call = "idle"
    /\ \/ \E c \in OptionalCalls, d \in Scalars :
             Called(Tag(c[1] \o "_or_none"), d, c[2])
       \/ \E d \in DictData, key_specs \in DictSchemas :
             Called(Tag("dict_or_none"), d, key_specs)

\* validate_dict_or_empty and validate_dict_or_nodata.
CallDictVariant ==
    /\ call = "idle"
    /\ \E nm \in {"dict_or_empty", "dict_or_nodata"}, d \in DictData,
          key_specs \in DictSchemas :
          Called(Tag(nm), d, key_specs)

CallRange ==
    /\ call = "idle"
    /\ Bound(Tag("range"), "validate_range")
    /\ \E d \in RangeData, min_value \in RangeBounds, max_value \in RangeBounds :
          Returned(Tag("range"), d, PyList(<<min_value, max_value>>),
                   validate_range(d, PyList(<<min_value, max_value>>)))

CallPortRange ==
    /\ call = "idle"
    /\ Bound(Tag("port_range"), "validate_port_range_or_none")
    /\ \E d \in PortRanges :
          Returned(Tag("port_range"), d, PyNone,
                   validate_port_range_or_none(d, PyNone))

CallSubports ==
    /\ call = "idle"
    /\ Bound(Tag("subports"), "validate_subports")
    /\ \E d \in {PyList(xs) : xs \in SeqsUpTo(Subports, MaxListLen)} \cup {PyNone} :
          Returned(Tag("subports"), d, PyNone, validate_subports(d, PyNone))

CallFixedIps ==
    /\ call = "idle"
    /\ Bound(Tag("fixed_ips"), "validate_fixed_ips")
    /\ \E d \in {PyList(xs) : xs \in SeqsUpTo(FixedIps, MaxListLen)} \cup {PyNone} :
          Returned(Tag("fixed_ips"), d, PyNone, validate_fixed_ips(d, PyNone))

CallHostroutes ==
    /\ call = "idle"
    /\ Bound(Tag("hostroutes"), "validate_hostroutes")
    /\ \E d \in {PyList(xs) : xs \in SeqsUpTo(HostRoutes, MaxListLen)} \cup {PyNone} :
          Returned(Tag("hostroutes"), d, PyNone, validate_hostroutes(d, PyNone))

NextValidators ==
    \/ VerifyDictKeys
    \/ CallHostroutes
    \/ CallSubports
    \/ CallFixedIps
    \/ CallRange
    \/ CallPortRange
    \/ CallOptional
    \/ CallDictVariant
    \/ Done

SpecValidators == Init /\ [][NextValidators]_vars

---------------------------------------------------------------------------
(* Properties of the validators *)

\* set(xs)
AsSet(xs) == {xs[i] : i \in DOMAIN xs}

\* C13: _verify_dict_keys returns no message in strict mode exactly when
\* the set of the target's keys equals the set of the expected keys, in
\* non-strict mode exactly when the expected keys are a subset of the
\* target's keys; what is not a dict gets a message in both modes.
C13_KeySetVerifier ==
    call = "_verify_dict_keys" =>
        /\ ret.kind = "return"
        /\ Succeeded <=>
              /\ isinstance(args.target_dict, "dict")
              /\ IF args.strict
                 THEN AsSet(args.expected_keys) = AsSet(DictKeys(args.target_dict))
                 ELSE AsSet(args.expected_keys) \subseteq AsSet(DictKeys(args.target_dict))

\* An extra key: accepted in non-strict mode.
C13_Witness ==
    /\ call = "_verify_dict_keys"
    /\ ~args.strict
    /\ Succeeded
    /\ AsSet(args.expected_keys) # AsSet(DictKeys(args.target_dict))
    /\ args.expected_keys # <<>>

\* The same extra key: rejected in strict mode.
C13_WitnessStrict ==
    /\ call = "_verify_dict_keys"
    /\ args.strict
    /\ Failed
    /\ isinstance(args.target_dict, "dict")
    /\ AsSet(args.expected_keys) \subseteq AsSet(DictKeys(args.target_dict))

OptionalNames ==
    {"string", "not_empty_string", "mac_address", "ip_address", "subnet",
     "regex", "uuid", "dict", "subnetpool_id"}

\* The validator bound to the tag `nm`, called on the arguments of the call
\* in progress.
Delegate(nm) == val_func(validators, validators[Tag(nm)], args.data, args.params)

\* The call in progress did what `x` does: same result, same state of data.
SameAs(x) == ret = Outcome(x) /\ data = x.data

\* C14: every X_or_none validator returns no message for None and leaves
\* None alone; for any other data it does exactly what X does on the same
\* data and constraint: the same message or none, the same exception if X
\* raises, the same state of the data.
C14_OrNone ==
    \A nm \in OptionalNames :
        (call = "validator" /\ args.validation_type = Tag(nm \o "_or_none"))
            => IF args.data = PyNone
               THEN Succeeded /\ data = PyNone
               ELSE SameAs(Delegate(nm))

\* A false value that is not None is handed to X, which rejects it.
C14_Witness ==
    /\ call = "validator"
    /\ args.validation_type = Tag("uuid_or_none")
    /\ args.data = PyStr(<<>>)
    /\ ret.val = Msg("'%s' is not a valid UUID", <<PyStr(<<>>)>>)

\* None is accepted though X rejects it.
C14_WitnessNone ==
    /\ call = "validator"
    /\ args.validation_type = Tag("dict_or_none")
    /\ args.data = PyNone
    /\ Truthy(args.params)
    /\ Succeeded
    /\ Truthy(Delegate("dict").val)

FalsyValues ==
    {PyNone, PyDict(<<>>), PyList(<<>>), PyInt(0), PyStr(<<>>)}

\* C15: validate_dict_or_empty returns no message for the empty dict and
\* otherwise does exactly what validate_dict does, so that None gets the
\* not-a-dictionary message; validate_dict_or_nodata returns no message for
\* every false value (None, {}, [], 0, '', False) and otherwise does
\* exactly what validate_dict does.
C15_OrEmptyOrNodata ==
    /\ (call = "validator" /\ args.validation_type = Tag("dict_or_empty"))
          => /\ IF args.data = PyDict(<<>>)
                THEN Succeeded /\ data = args.data
                ELSE SameAs(Delegate("dict"))
             /\ args.data = PyNone
                   => ret.val = Msg("'%s' is not a dictionary", <<PyNone>>)
    /\ (call = "validator" /\ args.validation_type = Tag("dict_or_nodata"))
          => /\ IF ~Truthy(args.data)
                THEN Succeeded /\ data = args.data
                ELSE SameAs(Delegate("dict"))
             /\ args.data \in FalsyValues => Succeeded

\* None under a schema: validate_dict_or_empty hands it to validate_dict.
C15_Witness ==
    /\ call = "validator"
    /\ args.validation_type = Tag("dict_or_empty")
    /\ args.data = PyNone
    /\ Truthy(args.params)
    /\ Failed

\* A false value that is not a dict: validate_dict_or_nodata accepts it.
C15_WitnessNodata ==
    /\ call = "validator"
    /\ args.validation_type = Tag("dict_or_nodata")
    /\ args.data = PyInt(0)
    /\ Truthy(args.params)
    /\ Succeeded

OnRange ==
    /\ call = "validator"
    /\ args.validation_type = Tag("range")
    /\ isinstance(args.data, "int")

\* C16: validate_range on an integer returns no message exactly when the
\* integer is not below min and not above max, both bounds included, a
\* bound of None (which is not the bound 0) being no limit. Below min the
\* message is 'too small'; above max, and not below min, it is 'too large'
\* (for bounds with min > max, an integer between the two is below min
\* first).
C16_InclusiveRange ==
    OnRange =>
        LET min_value == args.params.items[1]
            max_value == args.params.items[2]
            below == min_value # PyNone /\ args.data.n < min_value.n
            above == max_value # PyNone /\ args.data.n > max_value.n
        IN  /\ ret.kind = "return"
            /\ Succeeded <=> ~below /\ ~above
            /\ below => ret.val = Msg("'%(data)s' is too small - must be at least '%(limit)d'",
                                      <<args.data, min_value>>)
            /\ above /\ ~below
                  => ret.val = Msg("'%(data)s' is too large - must be no larger than '%(limit)d'",
                                   <<args.data, max_value>>)

\* The integer is the upper bound itself and there is no lower bound.
C16_Witness ==
    /\ OnRange
    /\ args.params = PyList(<<PyNone, PyInt(0)>>)
    /\ args.data = PyInt(0)
    /\ Succeeded

\* A negative integer passes a lower bound of None, not a lower bound of 0.
C16_WitnessUnlimited ==
    /\ OnRange
    /\ args.params = PyList(<<PyNone, PyInt(0)>>)
    /\ args.data = PyInt(-1)
    /\ Succeeded

\* The two ports of 'a:b', when the text is two valid ports and a colon.
PortsOf(d) == split(d.s, ":")

OnTwoPorts ==
    /\ call = "validator"
    /\ args.validation_type = Tag("port_range")
    /\ isinstance(args.data, "str")
    /\ Len(PortsOf(args.data)) = 2
    /\ \A i \in 1..2 : is_valid_port(PortsOf(args.data)[i])

\* C17: validate_port_range_or_none on 'a:b', a and b valid ports, returns
\* no message only if the number a is less than the number b: '9:10'
\* passes and '10:9' gets a message.
C17_NumericOrder ==
    OnTwoPorts =>
        /\ Succeeded => DigitsValue(PortsOf(args.data)[1])
                           < DigitsValue(PortsOf(args.data)[2])
        /\ args.data = PyStr(<<"9", ":", "1", "0">>) => Succeeded
        /\ args.data = PyStr(<<"1", "0", ":", "9">>) => Failed

---------------------------------------------------------------------------
(* Properties of the structural validators *)

OnSubports ==
    /\ call = "validator"
    /\ args.validation_type = Tag("subports")
    /\ isinstance(args.data, "list")

PortId(sp) == DictGet(sp, PyStr(<<"port_id">>))

SegId(sp) == DictGet(sp, PyStr(<<"segmentation_id">>))

SegType(sp) == DictGet(sp, PyStr(<<"segmentation_type">>))

\* One of segmentation_id and segmentation_type is in the subport, the
\* other is not.
OneWithoutTheOther(sp) ==
    DictHas(sp, PyStr(<<"segmentation_id">>))
        # DictHas(sp, PyStr(<<"segmentation_type">>))

MissingSegmentation(sp) ==
    Msg("Invalid subport details '%s': missing segmentation information. Must specify both segmentation_id and segmentation_type",
        <<sp>>)

\* C18: validate_subports rejects a subport for missing segmentation
\* information exactly when one of segmentation_id and segmentation_type
\* is in it and the other is not: never a subport with both (whatever the
\* segmentation_id, 0 included) or with neither (whatever other keys it
\* has), and always a subport with one of them, once its port id is
\* accepted.
C18_BothOrNeither ==
    OnSubports =>
        /\ \A i \in DOMAIN args.data.items :
              ret.val = MissingSegmentation(args.data.items[i])
                 => OneWithoutTheOther(args.data.items[i])
        /\ (/\ Len(args.data.items) = 1
            /\ isinstance(args.data.items[1], "dict")
            /\ is_uuid_like(PortId(args.data.items[1]))
            /\ OneWithoutTheOther(args.data.items[1]))
              => ret.val = MissingSegmentation(args.data.items[1])

SamePort(a, b) == PortId(a) = PortId(b)

\* Both subports carry a segmentation type and id, and the same ones.
SamePair(a, b) ==
    /\ \A sp \in {a, b} : /\ DictHas(sp, PyStr(<<"segmentation_id">>))
                          /\ DictHas(sp, PyStr(<<"segmentation_type">>))
    /\ SegType(a) = SegType(b)
    /\ SegId(a) = SegId(b)

\* A subport that passes every check made on it alone: a port id that is a
\* UUID, and nothing else or a segmentation id and type.
WellFormed(sp) ==
    /\ isinstance(sp, "dict")
    /\ is_uuid_like(PortId(sp))
    /\ \/ Len(sp.items) = 1
       \/ /\ Truthy(SegId(sp)) /\ Truthy(SegType(sp))
          /\ Hashable(SegId(sp)) /\ Hashable(SegType(sp))

\* The subports that repeat the port id or the segmentation pair of a
\* subport before them in the list.
Repeats(subports) ==
    {j \in DOMAIN subports :
        \E i \in 1..j - 1 : \/ SamePort(subports[i], subports[j])
                            \/ SamePair(subports[i], subports[j])}

\* C19: validate_subports returns no message only if the port ids are
\* pairwise distinct and no two subports have the same segmentation type
\* and id. On a list of subports each valid alone, it returns no message
\* exactly when nothing is repeated, so the same segmentation id under two
\* types is accepted, and otherwise the message is that of the first
\* subport in list order that repeats something: the port id if it repeats
\* one, else the segmentation id.
C19_UniqueSubports ==
    OnSubports =>
        LET subports == args.data.items
            first == CHOOSE j \in Repeats(subports) :
                        \A k \in Repeats(subports) : j <= k
        IN  /\ Succeeded => Repeats(subports) = {}
            /\ (\A i \in DOMAIN subports : WellFormed(subports[i]))
                  => IF Repeats(subports) = {}
                     THEN Succeeded
                     ELSE ret.val =
                            IF \E i \in 1..first - 1 :
                                  SamePort(subports[i], subports[first])
                            THEN Msg("Non unique UUID for subport: '%s'",
                                     <<PortId(subports[first])>>)
                            ELSE Msg("Segmentation ID '%(seg_id)s' for '%(subport)s' is not unique",
                                     <<SegId(subports[first]),
                                       PortId(subports[first])>>)

\* The same segmentation id under two segmentation types.
C19_Witness ==
    /\ OnSubports
    /\ Len(args.data.items) = 2
    /\ \A i \in 1..2 : WellFormed(args.data.items[i])
    /\ SegId(args.data.items[1]) = PyInt(1)
    /\ SegId(args.data.items[2]) = PyInt(1)
    /\ SegType(args.data.items[1]) # SegType(args.data.items[2])
    /\ Succeeded

\* The same segmentation type and id on two ports.
C19_WitnessRepeated ==
    /\ OnSubports
    /\ Len(args.data.items) = 2
    /\ ~SamePort(args.data.items[1], args.data.items[2])
    /\ SamePair(args.data.items[1], args.data.items[2])
    /\ ret.val = Msg("Segmentation ID '%(seg_id)s' for '%(subport)s' is not unique",
                     <<PyInt(1), PyStr(<<"uuid2">>)>>)

OnFixedIps ==
    /\ call = "validator"
    /\ args.validation_type = Tag("fixed_ips")
    /\ isinstance(args.data, "list")

IpAddress(fixed_ip) == DictGet(fixed_ip, PyStr(<<"ip_address">>))

HasIp(fixed_ip) ==
    isinstance(fixed_ip, "dict") /\ DictHas(fixed_ip, PyStr(<<"ip_address">>))

\* The fixed IP repeats the address of one before it in the list.
RepeatsIp(fixed_ips, j) ==
    /\ HasIp(fixed_ips[j])
    /\ \E i \in 1..j - 1 :
          HasIp(fixed_ips[i]) /\ IpAddress(fixed_ips[i]) = IpAddress(fixed_ips[j])

\* The fixed IP is valid alone: a dict whose address, if any, is an IP
\* address and whose subnet id, if any, is a UUID.
ValidAlone(fixed_ip) ==
    /\ isinstance(fixed_ip, "dict")
    /\ HasIp(fixed_ip)
          => ~Truthy(validate_ip_address(IpAddress(fixed_ip), PyNone).val)
    /\ DictHas(fixed_ip, PyStr(<<"subnet_id">>))
          => is_uuid_like(DictGet(fixed_ip, PyStr(<<"subnet_id">>)))

\* C20: validate_fixed_ips returns no message on a list exactly when every
\* item is a dict, the addresses present are pairwise distinct and each a
\* valid IP address, and every subnet id present is a UUID: subnet ids may
\* repeat. When every fixed IP before the first repeated address is valid
\* alone, the result is the duplicate-IP message for that address.
C20_UniqueFixedIps ==
    OnFixedIps =>
        LET fixed_ips == args.data.items
        IN  /\ ret.kind = "return"
            /\ Succeeded <=>
                  \A j \in DOMAIN fixed_ips :
                      ValidAlone(fixed_ips[j]) /\ ~RepeatsIp(fixed_ips, j)
            /\ \A j \in DOMAIN fixed_ips :
                  (/\ RepeatsIp(fixed_ips, j)
                   /\ \A i \in 1..j - 1 :
                         ValidAlone(fixed_ips[i]) /\ ~RepeatsIp(fixed_ips, i))
                      => ret.val = Msg("Duplicate IP address '%s'",
                                       <<IpAddress(fixed_ips[j])>>)

\* The second fixed IP repeats the address of the first.
C20_Witness ==
    /\ OnFixedIps
    /\ Len(args.data.items) = 2
    /\ RepeatsIp(args.data.items, 2)
    /\ ret.val = Msg("Duplicate IP address '%s'", <<PyStr(<<"10.0.0.1">>)>>)

\* Two fixed IPs on the same subnet.
C20_WitnessSubnet ==
    /\ OnFixedIps
    /\ Len(args.data.items) = 2
    /\ \A i \in 1..2 : DictGet(args.data.items[i], PyStr(<<"subnet_id">>))
                          = PyStr(<<"uuid1">>)
    /\ HasIp(args.data.items[1]) /\ HasIp(args.data.items[2])
    /\ Succeeded

OnHostroutes ==
    /\ call = "validator"
    /\ args.validation_type = Tag("hostroutes")
    /\ isinstance(args.data, "list")

ExactKeys(hostroute) ==
    /\ isinstance(hostroute, "dict")
    /\ AsSet(DictKeys(hostroute))
          = {PyStr(<<"destination">>), PyStr(<<"nexthop">>)}

ValidDestination(hostroute) ==
    ~Truthy(validate_subnet(DictGet(hostroute, PyStr(<<"destination">>)),
                            PyNone).val)

ValidNexthop(hostroute) ==
    ~Truthy(validate_ip_address(DictGet(hostroute, PyStr(<<"nexthop">>)),
                                PyNone).val)

\* The host route has the destination and the next hop of one before it
\* in the list.
RepeatsRoute(hostroutes, j) ==
    \E i \in 1..j - 1 :
        /\ ExactKeys(hostroutes[i])
        /\ \A key \in {PyStr(<<"destination">>), PyStr(<<"nexthop">>)} :
              DictGet(hostroutes[i], key) = DictGet(hostroutes[j], key)

\* The host route passes every check: keys, destination, next hop, and it
\* is no duplicate.
RoutePasses(hostroutes, j) ==
    /\ ExactKeys(hostroutes[j])
    /\ ValidDestination(hostroutes[j])
    /\ ValidNexthop(hostroutes[j])
    /\ ~RepeatsRoute(hostroutes, j)

\* C21: validate_hostroutes returns no message on a list exactly when every
\* element is a dict with exactly the keys destination and nexthop, a
\* destination that is a valid subnet, a next hop that is a valid IP
\* address, and no element equals one before it (the order of the keys
\* does not count). Otherwise the first element in list order that does not
\* pass determines the message, and on that element the checks are made in
\* the order keys, destination, next hop, duplicate.
C21_Hostroutes ==
    OnHostroutes =>
        LET hostroutes == args.data.items
            failing == {j \in DOMAIN hostroutes : ~RoutePasses(hostroutes, j)}
            first == CHOOSE j \in failing : \A k \in failing : j <= k
            hr == hostroutes[first]
        IN  /\ ret.kind = "return"
            /\ Succeeded <=> failing = {}
            /\ failing # {} =>
                  ret.val =
                     IF ~ExactKeys(hr)
                     THEN _verify_dict_keys(<<PyStr(<<"destination">>),
                                              PyStr(<<"nexthop">>)>>, hr, TRUE).val
                     ELSE IF ~ValidDestination(hr)
                     THEN validate_subnet(DictGet(hr, PyStr(<<"destination">>)),
                                          PyNone).val
                     ELSE IF ~ValidNexthop(hr)
                     THEN validate_ip_address(DictGet(hr, PyStr(<<"nexthop">>)),
                                              PyNone).val
                     ELSE Msg("Duplicate hostroute '%s'", <<hr>>)

\* Destination and next hop are both invalid: the message is that of the
\* destination.
C21_Witness ==
    /\ OnHostroutes
    /\ Len(args.data.items) = 2
    /\ RoutePasses(args.data.items, 1)
    /\ ExactKeys(args.data.items[2])
    /\ ~ValidDestination(args.data.items[2])
    /\ ~ValidNexthop(args.data.items[2])
    /\ ret.val = Msg("'%s' is not a valid IP subnet", <<PyStr(<<"s">>)>>)

\* The second host route is the first with its keys in the other order.
C21_WitnessDuplicate ==
    /\ OnHostroutes
    /\ Len(args.data.items) = 2
    /\ args.data.items[1] # args.data.items[2]
    /\ ret.val = Msg("Duplicate hostroute '%s'", <<args.data.items[2]>>)

---------------------------------------------------------------------------
(* The list validators, item by item *)

ListTags == {Tag("uuid_list"), Tag("subnet_list"), Tag("list_of_unique_strings")}

OnListValidator == call = "validator" /\ args.validation_type \in ListTags

\* What X, the item validator of the list validator called, gives on an item.
X(item) ==
    item_validator(
        CASE args.validation_type = Tag("uuid_list") -> "validate_uuid"
          [] args.validation_type = Tag("subnet_list") -> "validate_subnet"
          [] args.validation_type = Tag("list_of_unique_strings") -> "validate_string",
        item, args.params)

XFails(item) == X(item).kind = "raise" \/ Truthy(X(item).val)

OnDuplicateFreeList ==
    /\ OnListValidator
    /\ isinstance(args.data, "list")
    /\ \A i, j \in DOMAIN args.data.items :
          i < j => args.data.items[i] # args.data.items[j]

\* On a duplicate-free list X was applied to the items in list order up to
\* the first on which it fails, whose message is returned, and to no later
\* item; with no failing item X was applied to all and the call succeeds.
InListOrder ==
    LET items == args.data.items
        failing == {i \in DOMAIN items : XFails(items[i])}
    IN  IF failing = {}
        THEN /\ ret = Outcome(Return(PyNone, PyNone))
             /\ visited = items
        ELSE LET first == CHOOSE i \in failing : \A j \in failing : i <= j
             IN  /\ ret.kind = "return"
                 /\ ret.val = X(items[first]).val
                 /\ visited = SubSeq(items, 1, first)

\* Data that is not a list fails before X is applied to anything.
NotAListFails ==
    (OnListValidator /\ ~isinstance(args.data, "list")) =>
        /\ ret = Outcome(Return(Msg("'%s' is not a list", <<args.data>>), PyNone))
        /\ visited = <<>>

\* C23: on a duplicate-free list a unique-list-of-X validator applies X to
\* the elements in list order, returns the message of the first element on
\* which X fails without applying X to later elements, and succeeds exactly
\* when X succeeds on every element; data that is not a list fails before
\* any element is examined.
C23_InListOrder ==
    /\ NotAListFails
    /\ OnDuplicateFreeList => InListOrder

\* The same on the lists whose elements can all be hashed: set(data), the
\* duplicate test, raises TypeError on the others.
C23_HashableInListOrder ==
    /\ NotAListFails
    /\ (OnDuplicateFreeList
        /\ \A i \in DOMAIN args.data.items : Hashable(args.data.items[i]))
          => InListOrder

\* A list of two whose first element X rejects: X was applied to it alone.
C23_WitnessFirstFails ==
    /\ OnDuplicateFreeList
    /\ Len(args.data.items) = 2
    /\ XFails(args.data.items[1])
    /\ visited = <<args.data.items[1]>>
    /\ ret.kind = "return" /\ Truthy(ret.val)

\* A duplicate-free list with an element that cannot be hashed: the call
\* raises TypeError and X was applied to nothing.
C23_WitnessUnhashable ==
    /\ OnDuplicateFreeList
    /\ \E i \in DOMAIN args.data.items : ~Hashable(args.data.items[i])
    /\ ret.kind = "raise" /\ ret.exc = "TypeError"
    /\ visited = <<>>

---------------------------------------------------------------------------
(* What validate_dict leaves of the payload *)

\* The call stopped before the loop over the keys: the data is not a dict,
\* a required key is missing or an unexpected key was supplied.
FailsEarly ==
    \/ ~isinstance(args.data, "dict")
    \/ /\ Truthy(args.key_specs)
       /\ \/ ~RequiredPresent(args.data, args.key_specs)
          \/ ~NoneUnexpected(args.data, args.key_specs)

\* C24: validate_dict adds no key to the payload and removes none: after the
\* call the payload has the keys it had before, in the same order, and a
\* value differs only under a key that was handed to _validate_dict_item
\* (a key of the schema absent from the payload is not converted). When
\* the call fails because the data is not a dict, a required key is missing
\* or an unexpected key was supplied, the payload is as it was.
C24_KeysKept ==
    call = "validate_dict" =>
        /\ isinstance(args.data, "dict") =>
              /\ isinstance(data, "dict")
              /\ DictKeys(data) = DictKeys(args.data)
              /\ \A i \in DOMAIN data.items :
                    data.items[i].v # args.data.items[i].v
                       => \E j \in DOMAIN visited : visited[j] = data.items[i].k
        /\ FailsEarly => (data = args.data /\ visited = <<>> /\ ret.kind # "none")

\* The schema converts two optional keys, one of them absent from the
\* payload: the key present was converted, the absent one was not added.
C24_Witness ==
    /\ call = "validate_dict"
    /\ isinstance(args.data, "dict") /\ Truthy(args.key_specs)
    /\ Len(args.data.items) = 1
    /\ Len(args.key_specs.items) = 2
    /\ \A i \in DOMAIN args.key_specs.items :
          Truthy(DictGet(args.key_specs.items[i].v, PyStr(<<"convert_to">>)))
    /\ Succeeded
    /\ data # args.data
    /\ DictKeys(data) = DictKeys(args.data)

\* The payload lacks a required key whose key-spec converts: unchanged.
C24_WitnessEarly ==
    /\ call = "validate_dict"
    /\ isinstance(args.data, "dict") /\ Truthy(args.key_specs)
    /\ args.data.items # <<>>
    /\ ~RequiredPresent(args.data, args.key_specs)
    /\ \E i \in DOMAIN args.key_specs.items :
          /\ DictHas(args.data, args.key_specs.items[i].k)
          /\ Truthy(DictGet(args.key_specs.items[i].v, PyStr(<<"convert_to">>)))
    /\ Failed
    /\ data = args.data

---------------------------------------------------------------------------
(* The validator of a key *)

\* The entries of a key-spec whose name starts with 'type:', in the
\* iteration order of the key-spec.
TypeEntriesOf(key_validator) ==
    LET is_type(e) == startswith_type(e.k.s)
    IN  SelectSeq(key_validator.items, is_type)

\* The last key handed to _validate_dict_item, its value after conversion.
LastValue == Converted(LastSpec, DictGet(args.data, LastKey))

\* The call of the validator registered under the name of entry e, with
\* the value of e as constraint.
Applied(e) == val_func(validators, validators[e.k.s], LastValue, e.v)

\* C25: the result of _validate_dict_item on a key is that of one
\* validator, the one named by the first entry of the key-spec, in its
\* iteration order, whose name starts with 'type:', called on the value
\* (converted when the key-spec says so) with that entry's value as
\* constraint; the entries after it are not used. A key-spec with no such
\* entry passes the key, converted, without validating it.
C25_FirstTypeEntry ==
    (OnDict /\ visited # <<>>) =>
        LET types == TypeEntriesOf(LastSpec)
        IN  IF types = <<>>
            THEN /\ Succeeded
                 /\ DictGet(data, LastKey) = LastValue
            ELSE IF types[1].k.s \notin DOMAIN validators
            THEN /\ ret.kind = "return"
                 /\ ret.val = Msg("Validator '%s' does not exist.", <<types[1].k>>)
            ELSE /\ ret.kind = Applied(types[1]).kind
                 /\ ret.exc = Applied(types[1]).exc
                 /\ IF Truthy(Applied(types[1]).val)
                    THEN ret.val = Applied(types[1]).val
                    ELSE ret.val = PyNone
                 /\ DictGet(data, LastKey) = Applied(types[1]).data

\* Two 'type:' entries, both registered, that disagree on the value: the
\* result is the message of the first, the second accepts.
C25_Witness ==
    /\ OnDict /\ visited # <<>>
    /\ Len(TypeEntriesOf(LastSpec)) = 2
    /\ \A i \in 1..2 : TypeEntriesOf(LastSpec)[i].k.s \in DOMAIN validators
    /\ Truthy(Applied(TypeEntriesOf(LastSpec)[1]).val)
    /\ Applied(TypeEntriesOf(LastSpec)[2]).val = PyNone
    /\ Failed
    /\ ret.val = Applied(TypeEntriesOf(LastSpec)[1]).val

\* The other way round: the first accepts, the second would reject.
C25_WitnessSecondRejects ==
    /\ OnDict /\ visited # <<>>
    /\ Len(TypeEntriesOf(LastSpec)) = 2
    /\ \A i \in 1..2 : TypeEntriesOf(LastSpec)[i].k.s \in DOMAIN validators
    /\ Applied(TypeEntriesOf(LastSpec)[1]).val = PyNone
    /\ Truthy(Applied(TypeEntriesOf(LastSpec)[2]).val)
    /\ Succeeded

\* No 'type:' entry: the key is converted and passes.
C25_WitnessNoType ==
    /\ OnDict /\ visited # <<>>
    /\ TypeEntriesOf(LastSpec) = <<>>
    /\ Truthy(ConvertTo(LastSpec))
    /\ DictGet(data, LastKey) # DictGet(args.data, LastKey)
    /\ Succeeded

---------------------------------------------------------------------------
(* add_validator called from two threads *)

\* Two threads, each in one call of add_validator. The interpreter may
\* switch threads between the test `key in validators` and the statement
\* `validators[key] = validator`: a thread is at "check" before the test,
\* at "insert" between the two, and "done" when the call is over. `wrote`
\* numbers the insertions in the order they were made, `overlapped` tells
\* that the test of one thread was made while the other was at "insert".
Threads == {"A", "B"}

Other(t) == CHOOSE u \in Threads : u # t

Thread(validation_type, validator) ==
    [pc |-> "check", validation_type |-> validation_type,
     validator |-> validator, ret |-> NoRet, wrote |-> 0, overlapped |-> FALSE]

InitRace ==
    /\ validators = InitialValidators
    /\ call = "idle"
    /\ args = NoArgs
    /\ data = PyNone
    /\ visited = <<>>
    /\ ret = NoRet
    /\ threads \in [Threads -> {Thread(validation_type, validator) :
                                  validation_type \in ValidationTypes,
                                  validator \in Candidates}]

\* key = _to_validation_type(validation_type); if key in validators: ...
\* With the key bound the call ends here, as add_validator ends.
Check(t) ==
    LET me == threads[t]
        key == _to_validation_type(me.validation_type)
        overlap == threads[Other(t)].pc = "insert"
        mine == IF key \in DOMAIN validators
                THEN [me EXCEPT !.pc = "done",
                                !.ret = Outcome(add_validator(
                                           validators, me.validation_type,
                                           me.validator).ret),
                                !.overlapped = overlap]
                ELSE [me EXCEPT !.pc = "insert", !.overlapped = overlap]
    IN  /\ me.pc = "check"
        /\ threads' = [u \in Threads |->
                         IF u = t THEN mine
                         ELSE [threads[u] EXCEPT
                                  !.overlapped = overlap \/ threads[u].overlapped]]
        /\ UNCHANGED <<validators, call, args, data, visited, ret>>

\* validators[key] = validator
Insert(t) ==
    LET me == threads[t]
        key == _to_validation_type(me.validation_type)
    IN  /\ me.pc = "insert"
        /\ validators' = setitem(validators, key, me.validator)
        /\ threads' = [threads EXCEPT
                          ![t] = [me EXCEPT !.pc = "done",
                                            !.ret = Outcome(Return(PyNone, PyNone)),
                                            !.wrote = 1 + threads[Other(t)].wrote]]
        /\ UNCHANGED <<call, args, data, visited, ret>>

ThreadChecks == \E t \in Threads : Check(t)

ThreadInserts == \E t \in Threads : Insert(t)

NextRace ==
    \/ ThreadChecks
    \/ ThreadInserts

SpecRace == InitRace /\ [][NextRace]_vars

\* Both calls are over; they were for the same tag, which was not bound,
\* with validators that are different implementations.
RaceOver ==
    /\ threads # NoThreads
    /\ \A t \in Threads : threads[t].pc = "done"
    /\ _to_validation_type(threads["A"].validation_type)
          = _to_validation_type(threads["B"].validation_type)
    /\ _to_validation_type(threads["A"].validation_type)
          \notin DOMAIN InitialValidators
    /\ DifferentImplementation(threads["A"].validator, threads["B"].validator)

RaceKey == _to_validation_type(threads["A"].validation_type)

\* C22: two calls of add_validator on the same unbound tag with different
\* validators. When the test of one call is made between the test and the
\* insertion of the other, both calls return, none raises, and the tag is
\* bound to the validator inserted last. When one call is over before the
\* other begins, the first returns and binds the tag, and the second raises
\* (KeyError when both sources can be read) and leaves the binding: what
\* add_validator does when called twice in a row.
C22_CheckThenInsert ==
    RaceOver =>
        IF threads["A"].overlapped
        THEN /\ \A t \in Threads : threads[t].ret = Outcome(Return(PyNone, PyNone))
             /\ \E t \in Threads : /\ threads[t].wrote = 2
                                   /\ validators[RaceKey] = threads[t].validator
        ELSE \E t \in Threads :
                LET u == Other(t)
                    first == add_validator(InitialValidators,
                                           threads[t].validation_type,
                                           threads[t].validator)
                    second == add_validator(first.validators,
                                            threads[u].validation_type,
                                            threads[u].validator)
                IN  /\ threads[t].ret.kind = "return"
                    /\ threads[u].ret.kind = "raise"
                    /\ threads[t].ret = Outcome(first.ret)
                    /\ threads[u].ret = Outcome(second.ret)
                    /\ validators = second.validators
                    /\ validators[RaceKey] = threads[t].validator
                    /\ (threads[t].validator.src # NoSource
                        /\ threads[u].validator.src # NoSource)
                          => threads[u].ret.exc = "KeyError"

\* The race: both calls returned and the tag is bound to the validator of
\* B, which inserted last, not to that of A.
C22_Witness ==
    /\ RaceOver
    /\ threads["A"].overlapped
    /\ threads["A"].wrote = 1 /\ threads["B"].wrote = 2
    /\ \A t \in Threads : threads[t].ret.kind = "return"
    /\ validators[RaceKey] = threads["B"].validator
    /\ validators[RaceKey] # threads["A"].validator

\* One call after the other: the second raises KeyError.
C22_WitnessSerialized ==
    /\ RaceOver
    /\ ~threads["A"].overlapped
    /\ threads["A"].ret.kind = "return"
    /\ threads["B"].ret.exc = "KeyError"

====
